---- MODULE Spec2Model ----
(***************************************************************************)
(* docker2img: a model of                                                  *)
(*   - ImageConverter.convert_to_bootable_image (src/image_converter.py),  *)
(*     with the host's loop devices, device nodes, mounts and directories; *)
(*   - DockerToBootableApp.convert_docker_image (src/app.py) called by     *)
(*     several threads;                                                    *)
(*   - DockerRegistryClient.get_manifest and its platform resolution       *)
(*     (src/docker_registry.py).                                           *)
(* Each part has its own specification (SpecDisk, SpecApp, SpecResolve);   *)
(* the variables of the other parts stay at their initial values.          *)
(***************************************************************************)
EXTENDS Integers, Sequences, FiniteSets, TLC

VARIABLES
    \* ---- ImageConverter: fields and the locals of the running call ----
    pc,                \* position inside convert_to_bootable_image
    loop_devices,      \* self.loop_devices
    temp_dirs,         \* self.temp_dirs
    attempt,           \* partition_disk: the for-loop variable
    loop_device,       \* partition_disk: local loop_device (a path, NoPath when empty/None)
    partition_device,  \* format_partition's result
    elapsed,           \* _wait_for_partition_device: elapsed
    last_trigger,      \* _wait_for_partition_device: last_trigger
    attempted_kpartx,  \* _wait_for_partition_device: attempted_kpartx
    idx,               \* index of the running for-loop (bind mounts, commands, cleanup)
    pending,           \* an exception raised inside a try whose finally is running
    result,            \* "none", "returned" or "raised"
    error,             \* the exception that left the call
    \* ---- the host ----
    clock,             \* seconds since _wait_for_partition_device read start
    attached,          \* loop device numbers attached in the kernel
    nodes,             \* paths for which os.path.exists is true
    dirs,              \* temporary directories that exist
    dataMounted,       \* the data partition is mounted on the mount directory
    bindMounted,       \* which of /proc, /sys, /dev are bind-mounted into the guest tree
    distro,            \* what etc/os-release of the guest said when it was read
    os_release,        \* the local os_release of install_kernel_and_bootloader
    \* ---- history of the call (written, never read, by the program) ----
    steps,             \* the steps started, in order
    completed,         \* the steps that returned without raising
    cmds,              \* release commands issued: <<command, target, busy>>
    cleanups,          \* how many times cleanup() has been called
    observed,          \* what the existence checks of the current poll have seen,
                       \* until mkfs.ext4 is run
    image_size_mb,     \* self.image_size_mb
    image_bytes,       \* the length of the file at output_path
    \* ---- DockerToBootableApp ----
    tpc,               \* per thread: position inside convert_docker_image
    conversion_lock,   \* the holder of self.conversion_lock, 0 when free
    tinput,            \* per thread: the arguments of its call
    tresult,           \* per thread: the returned (status, path)
    tstages,           \* per thread: the stages its call has entered, in order
    tdirs,             \* per thread: the temporary directories of its call that exist
    tplatforms,        \* per thread, during a call: the platform argument, the resolutions made
    \* ---- DockerRegistryClient ----
    rpc,               \* position inside get_manifest
    raw,               \* what dxf.get_manifest(tag) answers
    requested,         \* get_manifest's argument platform
    manifest,          \* _resolve_manifest_for_platform: the argument manifest
    platform,          \* _resolve_manifest_for_platform: the argument platform
    depth,             \* nesting depth of _resolve_manifest_for_platform
    best_match,        \* _resolve_manifest_for_platform: the chosen list entry
    fetched,           \* the (digest, platform) pairs asked of the transport
    resolved,          \* the outcome: of the resolution, then of get_manifest
    outcome,           \* the outcome of get_image_info or download_all_layers
    run,               \* 1 in the first call of get_manifest, 2 in the second
    first,             \* what the first call asked of the transport and returned
    \* DockerRegistryClient.parse_image_url
    image_url,         \* the argument, a string of name characters, "/" and ":"
    parsed             \* the tuple returned

diskVars == <<pc, loop_devices, temp_dirs, attempt, loop_device, partition_device,
              elapsed, last_trigger, attempted_kpartx, idx, pending, result, error,
              clock, attached, nodes, dirs, dataMounted, bindMounted, distro, os_release,
              steps, completed, cmds, cleanups, observed, image_size_mb, image_bytes>>
appVars == <<tpc, conversion_lock, tinput, tresult, tstages, tdirs, tplatforms>>
resVars == <<rpc, raw, requested, manifest, platform, depth, best_match, fetched,
             resolved, outcome, run, first>>
parseVars == <<image_url, parsed>>
vars == <<diskVars, appVars, parseVars, resVars, parseVars>>

(***************************************************************************)
(* Bounds of the model and constants of the program.                       *)
(***************************************************************************)
MaxDelay == 2        \* seconds one poll's commands may take beyond the sleep
max_retries == 3     \* partition_disk
timeout == 60        \* format_partition's argument to _wait_for_partition_device
RetriggerPeriod == 3 \* elapsed - last_trigger >= 3
KpartxGrace == 10    \* elapsed >= 10
MaxCleanups == 2     \* calls of cleanup() on one ImageConverter
MaxEntries == 2      \* entries of a manifest list, keys of a platform map
MaxLayers == 3       \* layer descriptors of a concrete manifest
MaxUrlLen == 7       \* characters of an image URL
MaxDepth == 2        \* nested calls of _resolve_manifest_for_platform the interpreter allows
NumThreads == 2      \* threads calling convert_docker_image on one app object
MinImageSize == 512  \* "if image_size_mb < 512"
DefaultImageSize == 2048   \* "image_size_mb: int = 2048"

(***************************************************************************)
(* Paths.  A path is a record; NoPath stands for "" and None.              *)
(***************************************************************************)
NoPath == [base |-> "none", dev |-> 0, part |-> 0]
LoopPath(d) == [base |-> "loop", dev |-> d, part |-> 0]
\* expected = f"{loop_device}p{partition_number}"
ExpectedPath(ld, n) == [base |-> "loop", dev |-> ld.dev, part |-> n]
\* mapper = f"/dev/mapper/{base}p{partition_number}"
MapperPath(ld, n) == [base |-> "mapper", dev |-> ld.dev, part |-> n]
\* os.path.exists
Exists(p) == p \in nodes

\* os.path.join(mount_point, fs.lstrip('/')) and a temporary directory
GuestPath(fs) == [base |-> fs, dev |-> 0, part |-> 0]
DirPath(n) == [base |-> "dir", dev |-> n, part |-> 0]

NoError == [kind |-> "none", path |-> NoPath]
Error(k, p) == [kind |-> k, path |-> p]

StepOrder == <<"create_disk_image", "partition_disk", "format_partition",
               "mount_partition", "copy_rootfs", "install_kernel_and_bootloader",
               "unmount_and_cleanup", "cleanup">>
BindOrder == <<"proc", "sys", "dev">>
UnbindOrder == <<"dev", "sys", "proc">>
Distros == {"alpine", "debian", "unknown", "missing"}

\* words an etc/os-release may hold, as written in the file; a file is the set
\* of the words of its text
OsReleaseWords == {"Alpine", "alpine", "debian", "Ubuntu"}
OsReleaseFiles == [exists : {TRUE}, text : SUBSET OsReleaseWords]
                      \cup {[exists |-> FALSE, text |-> {}]}
NotRead == [exists |-> FALSE, text |-> {"not read"}]

appInit ==
    /\ tpc = <<>> /\ conversion_lock = 0 /\ tinput = <<>> /\ tresult = <<>>
    /\ tstages = <<>> /\ tdirs = <<>> /\ tplatforms = <<>>
parseInit == image_url = <<>> /\ parsed = <<>>
resInit ==
    /\ rpc = "off" /\ raw = <<>> /\ requested = <<>> /\ manifest = <<>>
    /\ platform = <<>> /\ depth = 0 /\ best_match = <<>> /\ fetched = <<>>
    /\ resolved = <<>> /\ outcome = <<>> /\ run = 0 /\ first = <<>>

\* ImageConverter.__init__, on a host with no loop device attached
diskOff ==
    /\ pc = "idle"
    /\ loop_devices = <<>> /\ temp_dirs = <<>>
    /\ attempt = 0 /\ loop_device = NoPath /\ partition_device = NoPath
    /\ elapsed = 0 /\ last_trigger = 0 /\ attempted_kpartx = FALSE
    /\ idx = 0 /\ pending = NoError /\ result = "none" /\ error = NoError
    /\ clock = 0 /\ attached = {} /\ nodes = {} /\ dirs = {}
    /\ dataMounted = FALSE /\ bindMounted = {}
    /\ distro = "unread"
    /\ os_release = NotRead
    /\ steps = <<>> /\ completed = {} /\ cmds = <<>> /\ cleanups = 0
    /\ observed = {}

\* "bs=1MB": blocks of 1000 * 1000 bytes
BlockSizeDecimal == 1000 * 1000
\* "bs=1M": blocks of 1024 * 1024 bytes
BlockSize == 1024 * 1024
\* ImageConverter(image_size_mb=...): the least size the app lets through and
\* the size of end-to-end scenario 3 (sizes whose byte count is below 2^31,
\* the largest integer of the model checker)
SizeChoices == {MinImageSize, 1024}
\* output_path may name a file that is there already
PriorBytes == {0, 3 * BlockSize}

diskInit == diskOff /\ image_size_mb = DefaultImageSize /\ image_bytes = 0

InitDisk ==
    /\ diskOff /\ appInit /\ resInit /\ parseInit
    /\ image_size_mb \in SizeChoices
    /\ image_bytes \in PriorBytes


(***************************************************************************)
(* ImageConverter.convert_to_bootable_image                                *)
(***************************************************************************)
hostVars == <<clock, attached, nodes, dirs, dataMounted, bindMounted, distro, os_release>>
waitVars == <<elapsed, last_trigger, attempted_kpartx>>
ledgerVars == <<loop_devices, temp_dirs>>
otherParts == <<appVars, resVars, parseVars>>

\* an exception leaves the try block: the except clause re-raises, finally runs
Raise(kind, path) ==
    /\ pc' = "finally"
    /\ result' = "raised"
    /\ error' = Error(kind, path)

\* the call of the next step of convert_to_bootable_image
StartStep(done, next) ==
    /\ completed' = completed \cup {done}
    /\ steps' = Append(steps, next)

\* a command run through run_command, as the shell sees it: "Running: ..." is
\* printed before it is run
Issued(c, t, ok) ==
    Append(cmds, [cmd |-> c, target |-> t, mounted |-> dataMounted, ok |-> ok,
                  printed |-> TRUE])
\* a command of cleanup: subprocess.run(..., capture_output=True) or
\* shutil.rmtree(..., ignore_errors=True) inside "try: ... except: pass"
IssuedQuietly(c, t, ok) ==
    Append(cmds, [cmd |-> c, target |-> t, mounted |-> dataMounted, ok |-> ok,
                  printed |-> FALSE])

\* losetup --find: the lowest loop device not attached
FreeDevice == CHOOSE d \in 1..(max_retries + 1) :
                  /\ d \notin attached
                  /\ \A e \in 1..(d - 1) : e \in attached

Call ==
    /\ pc = "idle"
    /\ pc' = "create_disk_image"
    /\ steps' = Append(steps, "create_disk_image")
    /\ UNCHANGED <<ledgerVars, attempt, loop_device, partition_device, waitVars, idx,
                   pending, result, error, hostVars, completed, cmds,
                   observed, cleanups,
                   image_size_mb, image_bytes, otherParts>>

\* what dd leaves at of= after writing 'blocks' blocks: the file is truncated
\* when dd opens it, then written from the start
Written(blocks) == blocks * BlockSize

\* dd if=/dev/zero of=output_path bs=1M count=image_size_mb (check=True); a dd
\* that fails (no space left) has written fewer blocks
create_disk_image ==
    /\ pc = "create_disk_image"
    /\ \E ok \in BOOLEAN :
          IF ok
          THEN /\ pc' = "losetup"
               /\ image_bytes' = Written(image_size_mb)
               /\ StartStep("create_disk_image", "partition_disk")
               /\ attempt' = 0
               /\ loop_device' = NoPath
               /\ UNCHANGED <<result, error>>
          ELSE /\ \E blocks \in {0, image_size_mb - 1} : image_bytes' = Written(blocks)
               /\ Raise("dd", NoPath)
               /\ UNCHANGED <<steps, completed, attempt, loop_device>>
    /\ UNCHANGED <<ledgerVars, partition_device, waitVars, idx, pending, hostVars,
                   cmds, observed, cleanups, image_size_mb, otherParts>>

\* partition_disk, one pass of "for attempt in range(max_retries)": the losetup
\* command.  It exits non-zero, or prints a path (the device is then attached in
\* the kernel; its node may not be visible yet), or prints nothing.
partition_disk_losetup ==
    /\ pc = "losetup"
    /\ \/ /\ IF attempt = max_retries - 1
             THEN /\ Raise("losetup", NoPath)
                  /\ UNCHANGED attempt
             ELSE /\ attempt' = attempt + 1
                  /\ UNCHANGED <<pc, result, error>>
          /\ UNCHANGED <<loop_device, attached, nodes>>
       \/ /\ \E visible \in BOOLEAN :
               /\ loop_device' = LoopPath(FreeDevice)
               /\ attached' = attached \cup {FreeDevice}
               /\ nodes' = IF visible THEN nodes \cup {LoopPath(FreeDevice)} ELSE nodes
          /\ pc' = "check_loop"
          /\ UNCHANGED <<attempt, result, error>>
       \/ /\ loop_device' = NoPath
          /\ pc' = "check_loop"
          /\ UNCHANGED <<attempt, result, error, attached, nodes>>
    /\ UNCHANGED <<ledgerVars, partition_device, waitVars, idx, pending, clock, dirs,
                   dataMounted, bindMounted, distro, os_release, steps, completed, cmds,
                   observed, cleanups,
                   image_size_mb, image_bytes, otherParts>>

\* partition_disk: "if loop_device and os.path.exists(loop_device)" inside the loop
partition_disk_check ==
    /\ pc = "check_loop"
    /\ IF loop_device # NoPath /\ Exists(loop_device)
       THEN /\ loop_devices' = Append(loop_devices, loop_device)
            /\ pc' = "verify_loop"
            /\ UNCHANGED attempt
       ELSE /\ attempt' = attempt + 1
            /\ pc' = IF attempt + 1 = max_retries THEN "verify_loop" ELSE "losetup"
            /\ UNCHANGED loop_devices
    /\ UNCHANGED <<temp_dirs, loop_device, partition_device, waitVars, idx, pending,
                   result, error, hostVars, steps, completed, cmds,
                   observed, cleanups,
                   image_size_mb, image_bytes, otherParts>>

\* partition_disk: "if not loop_device or not os.path.exists(loop_device): raise"
partition_disk_verify ==
    /\ pc = "verify_loop"
    /\ IF loop_device = NoPath \/ ~Exists(loop_device)
       THEN Raise("no_loop_device", NoPath)
       ELSE /\ pc' = "parted"
            /\ UNCHANGED <<result, error>>
    /\ UNCHANGED <<ledgerVars, attempt, loop_device, partition_device, waitVars, idx,
                   pending, hostVars, steps, completed, cmds,
                   observed, cleanups,
                   image_size_mb, image_bytes, otherParts>>

\* partition_disk: parted mklabel/mkpart (check=True)
partition_disk_parted ==
    /\ pc = "parted"
    /\ \E ok \in BOOLEAN :
          IF ok
          THEN /\ pc' = "partprobe"
               /\ UNCHANGED <<result, error>>
          ELSE Raise("parted", loop_device)
    /\ UNCHANGED <<ledgerVars, attempt, loop_device, partition_device, waitVars, idx,
                   pending, hostVars, steps, completed, cmds,
                   observed, cleanups,
                   image_size_mb, image_bytes, otherParts>>

\* partition_disk: partprobe (check=True), then losetup -c and udevadm settle
\* (check=False) and the parted print, whose outcomes are ignored
partition_disk_partprobe ==
    /\ pc = "partprobe"
    /\ \E ok \in BOOLEAN :
          IF ok
          THEN /\ pc' = "format_partition"
               /\ StartStep("partition_disk", "format_partition")
               /\ UNCHANGED <<result, error>>
          ELSE /\ Raise("partprobe", loop_device)
               /\ UNCHANGED <<steps, completed>>
    /\ UNCHANGED <<ledgerVars, attempt, loop_device, partition_device, waitVars, idx,
                   pending, hostVars, cmds, observed, cleanups,
                   image_size_mb, image_bytes, otherParts>>

\* the device manager creates the node of an attached loop device
UdevLoopNode ==
    /\ pc \notin {"idle", "done"}
    /\ \E d \in attached :
          /\ LoopPath(d) \notin nodes
          /\ nodes' = nodes \cup {LoopPath(d)}
    /\ UNCHANGED <<pc, ledgerVars, attempt, loop_device, partition_device, waitVars,
                   idx, pending, result, error, clock, attached, dirs, dataMounted,
                   bindMounted, distro, os_release, steps, completed, cmds,
                   observed, cleanups,
                   image_size_mb, image_bytes, otherParts>>

\* the kernel exposes the node of the partition written by parted
UdevPartitionNode ==
    /\ pc \in {"partprobe", "format_partition", "wait_first", "wait_expected",
               "wait_mapper", "wait_lsblk", "wait_act", "wait_timeout"}
    /\ loop_device.dev \in attached
    /\ ExpectedPath(loop_device, 1) \notin nodes
    /\ nodes' = nodes \cup {ExpectedPath(loop_device, 1)}
    /\ UNCHANGED <<pc, ledgerVars, attempt, loop_device, partition_device, waitVars,
                   idx, pending, result, error, clock, attached, dirs, dataMounted,
                   bindMounted, distro, os_release, steps, completed, cmds,
                   observed, cleanups,
                   image_size_mb, image_bytes, otherParts>>

\* one os.path.exists(path) of _wait_for_partition_device and what it answered
Obs(path, seen) == [path |-> path, seen |-> seen]

\* format_partition: "if not os.path.exists(loop_device): raise", then the call
\* of _wait_for_partition_device and its two checks before the loop
format_partition ==
    /\ pc = "format_partition"
    /\ IF ~Exists(loop_device)
       THEN /\ Raise("loop_device_missing", loop_device)
            /\ UNCHANGED <<partition_device, waitVars, clock, observed>>
       ELSE /\ UNCHANGED <<result, error>>
            /\ IF Exists(ExpectedPath(loop_device, 1))
               THEN /\ partition_device' = ExpectedPath(loop_device, 1)
                    /\ observed' = {Obs(ExpectedPath(loop_device, 1), TRUE)}
                    /\ pc' = "mkfs"
                    /\ UNCHANGED <<waitVars, clock>>
               ELSE IF Exists(MapperPath(loop_device, 1))
               THEN /\ partition_device' = MapperPath(loop_device, 1)
                    /\ observed' = {Obs(ExpectedPath(loop_device, 1), FALSE),
                                    Obs(MapperPath(loop_device, 1), TRUE)}
                    /\ pc' = "mkfs"
                    /\ UNCHANGED <<waitVars, clock>>
               ELSE \* start = time.time(); attempted_kpartx = False; last_trigger = 0.0
                    /\ pc' = "wait_expected"
                    /\ observed' = {Obs(ExpectedPath(loop_device, 1), FALSE),
                                    Obs(MapperPath(loop_device, 1), FALSE)}
                    /\ clock' = 0
                    /\ elapsed' = 0
                    /\ last_trigger' = 0
                    /\ attempted_kpartx' = FALSE
                    /\ UNCHANGED partition_device
    /\ UNCHANGED <<ledgerVars, attempt, loop_device, idx, pending, attached, nodes,
                   dirs, dataMounted, bindMounted, distro, os_release, steps, completed, cmds,
                   cleanups,
                   image_size_mb, image_bytes, otherParts>>

\* _wait_for_partition_device returns: its locals are gone
WaitReturns ==
    /\ elapsed' = 0
    /\ last_trigger' = 0
    /\ attempted_kpartx' = FALSE
    /\ clock' = 0

\* _wait_for_partition_device, in the loop: "if os.path.exists(expected)"
wait_expected ==
    /\ pc = "wait_expected"
    /\ observed' = {Obs(ExpectedPath(loop_device, 1), Exists(ExpectedPath(loop_device, 1)))}
    /\ IF Exists(ExpectedPath(loop_device, 1))
       THEN /\ partition_device' = ExpectedPath(loop_device, 1)
            /\ pc' = "mkfs"
            /\ WaitReturns
       ELSE /\ pc' = "wait_mapper"
            /\ UNCHANGED <<partition_device, waitVars, clock>>
    /\ UNCHANGED <<ledgerVars, attempt, loop_device, idx, pending, result, error,
                   attached, nodes, dirs, dataMounted, bindMounted, distro, os_release, steps,
                   completed, cmds, cleanups,
                   image_size_mb, image_bytes, otherParts>>

\* wait_mapper answering with the mapper path once kpartx has run, unseen
wait_mapper_unchecked ==
    /\ pc = "wait_mapper"
    /\ observed' = observed
    /\ IF attempted_kpartx
       THEN /\ partition_device' = MapperPath(loop_device, 1)
            /\ pc' = "mkfs"
            /\ WaitReturns
       ELSE /\ pc' = "wait_lsblk"
            /\ UNCHANGED <<partition_device, waitVars, clock>>
    /\ UNCHANGED <<ledgerVars, attempt, loop_device, idx, pending, result, error,
                   attached, nodes, dirs, dataMounted, bindMounted, distro, os_release, steps,
                   completed, cmds, cleanups,
                   image_size_mb, image_bytes, otherParts>>

\* _wait_for_partition_device, in the loop: "if os.path.exists(mapper)"
wait_mapper ==
    /\ pc = "wait_mapper"
    /\ observed' = observed \cup
                       {Obs(MapperPath(loop_device, 1), Exists(MapperPath(loop_device, 1)))}
    /\ IF Exists(MapperPath(loop_device, 1))
       THEN /\ partition_device' = MapperPath(loop_device, 1)
            /\ pc' = "mkfs"
            /\ WaitReturns
       ELSE /\ pc' = "wait_lsblk"
            /\ UNCHANGED <<partition_device, waitVars, clock>>
    /\ UNCHANGED <<ledgerVars, attempt, loop_device, idx, pending, result, error,
                   attached, nodes, dirs, dataMounted, bindMounted, distro, os_release, steps,
                   completed, cmds, cleanups,
                   image_size_mb, image_bytes, otherParts>>

\* _wait_for_partition_device, in the loop: the lsblk listing.  A listed name
\* of type part that ends in p<n> and exists is returned; lsblk may also list
\* nothing, or fail.
wait_lsblk ==
    /\ pc = "wait_lsblk"
    /\ \/ \E name \in {ExpectedPath(loop_device, 1), MapperPath(loop_device, 1)} :
             /\ Exists(name)
             /\ observed' = observed \cup {Obs(name, TRUE)}
             /\ partition_device' = name
             /\ pc' = "mkfs"
             /\ WaitReturns
       \/ /\ pc' = "wait_act"
          /\ UNCHANGED <<partition_device, waitVars, clock, observed>>
    /\ UNCHANGED <<ledgerVars, attempt, loop_device, idx, pending, result, error,
                   attached, nodes, dirs, dataMounted, bindMounted, distro, os_release, steps,
                   completed, cmds, cleanups,
                   image_size_mb, image_bytes, otherParts>>

\* the re-read run on every pass of the loop
RetriggerAlways(e) == e >= 0
\* "if elapsed - last_trigger >= 3": partprobe, losetup -c, blockdev, settle
Retrigger(e) == e - last_trigger >= RetriggerPeriod
\* the kpartx fallback without its attempted_kpartx flag
KpartxFallbackAgain(e) == e >= KpartxGrace
\* "if not attempted_kpartx and elapsed >= 10": kpartx -a -s
KpartxFallback(e) == ~attempted_kpartx /\ e >= KpartxGrace

\* _wait_for_partition_device, in the loop: elapsed = time.time() - start, the
\* periodic re-read and the kpartx fallback (every command check=False)
wait_act ==
    /\ pc = "wait_act"
    /\ \E d \in 0..MaxDelay :
          /\ clock' = clock + d
          /\ elapsed' = clock + d
          /\ last_trigger' = IF Retrigger(clock + d) THEN clock + d ELSE last_trigger
          /\ IF KpartxFallback(clock + d)
             THEN /\ attempted_kpartx' = TRUE
                  /\ \E ok \in BOOLEAN :
                        LET mapped == ok /\ loop_device.dev \in attached
                        IN  /\ nodes' = IF mapped
                                        THEN nodes \cup {MapperPath(loop_device, 1)}
                                        ELSE nodes
                            /\ cmds' = Issued("kpartx -a", loop_device, mapped)
             ELSE UNCHANGED <<attempted_kpartx, nodes, cmds>>
    /\ pc' = "wait_timeout"
    /\ UNCHANGED <<ledgerVars, attempt, loop_device, partition_device, idx, pending,
                   result, error, attached, dirs, dataMounted, bindMounted, distro, os_release,
                   steps, completed, observed, cleanups,
                   image_size_mb, image_bytes, otherParts>>

\* wait_timeout with start read again on every pass of the loop
wait_timeout_restart ==
    /\ pc = "wait_timeout"
    /\ IF elapsed >= timeout
       THEN /\ Raise("partition_timeout", ExpectedPath(loop_device, 1))
            /\ UNCHANGED clock
       ELSE /\ clock' = 0
            /\ pc' = "wait_expected"
            /\ UNCHANGED <<result, error>>
    /\ UNCHANGED <<ledgerVars, attempt, loop_device, partition_device, waitVars, idx,
                   pending, attached, nodes, dirs, dataMounted, bindMounted, distro, os_release,
                   steps, completed, cmds, observed, cleanups,
                   image_size_mb, image_bytes, otherParts>>

\* _wait_for_partition_device, in the loop: "if elapsed >= timeout: break", else
\* time.sleep(1); after the loop the diagnostics and the raise
wait_timeout ==
    /\ pc = "wait_timeout"
    /\ IF elapsed >= timeout
       THEN /\ Raise("partition_timeout", ExpectedPath(loop_device, 1))
            /\ UNCHANGED clock
       ELSE /\ clock' = clock + 1
            /\ pc' = "wait_expected"
            /\ UNCHANGED <<result, error>>
    /\ UNCHANGED <<ledgerVars, attempt, loop_device, partition_device, waitVars, idx,
                   pending, attached, nodes, dirs, dataMounted, bindMounted, distro, os_release,
                   steps, completed, cmds, observed, cleanups,
                   image_size_mb, image_bytes, otherParts>>

\* format_partition_mkfs run with check=False: a failing mkfs goes unnoticed
format_partition_mkfs_unchecked ==
    /\ pc = "mkfs"
    /\ \E ok \in BOOLEAN :
          /\ pc' = "mkdtemp"
          /\ steps' = Append(steps, "mount_partition")
          /\ completed' = IF ok THEN completed \cup {"format_partition"} ELSE completed
          /\ cmds' = Issued("mkfs.ext4", partition_device, ok)
    /\ observed' = {}
    /\ UNCHANGED <<ledgerVars, attempt, loop_device, partition_device, waitVars, idx,
                   pending, result, error, hostVars, cleanups,
                   image_size_mb, image_bytes, otherParts>>

\* format_partition: mkfs.ext4 -F partition_device (check=True)
format_partition_mkfs ==
    /\ pc = "mkfs"
    /\ \E ok \in BOOLEAN :
          /\ cmds' = Issued("mkfs.ext4", partition_device, ok)
          /\ IF ok
             THEN /\ pc' = "mkdtemp"
                  /\ StartStep("format_partition", "mount_partition")
                  /\ UNCHANGED <<result, error>>
             ELSE /\ Raise("mkfs", partition_device)
                  /\ UNCHANGED <<steps, completed>>
    /\ observed' = {}
    /\ UNCHANGED <<ledgerVars, attempt, loop_device, partition_device, waitVars, idx,
                   pending, hostVars, cleanups,
                   image_size_mb, image_bytes, otherParts>>

\* mount_partition: tempfile.mkdtemp and self.temp_dirs.append(mount_point)
mount_partition_mkdtemp ==
    /\ pc = "mkdtemp"
    /\ temp_dirs' = Append(temp_dirs, Len(temp_dirs) + 1)
    /\ dirs' = dirs \cup {Len(temp_dirs) + 1}
    /\ pc' = "mount"
    /\ UNCHANGED <<loop_devices, attempt, loop_device, partition_device, waitVars, idx,
                   pending, result, error, clock, attached, nodes, dataMounted,
                   bindMounted, distro, os_release, steps, completed, cmds,
                   observed, cleanups,
                   image_size_mb, image_bytes, otherParts>>

\* the directory the data partition is mounted on
MountPoint == temp_dirs[Len(temp_dirs)]

\* mount_partition: mount partition_device mount_point (check=True)
mount_partition ==
    /\ pc = "mount"
    /\ \E ok \in BOOLEAN :
          IF ok
          THEN /\ dataMounted' = TRUE
               /\ pc' = "cp"
               /\ StartStep("mount_partition", "copy_rootfs")
               /\ UNCHANGED <<result, error>>
          ELSE /\ Raise("mount", partition_device)
               /\ UNCHANGED <<dataMounted, steps, completed>>
    /\ UNCHANGED <<ledgerVars, attempt, loop_device, partition_device, waitVars, idx,
                   pending, clock, attached, nodes, dirs, bindMounted, distro, os_release, cmds,
                   observed, cleanups,
                   image_size_mb, image_bytes, otherParts>>

\* copy_rootfs: cp -a (check=True), then mkdir -p of /boot /proc /sys /dev
\* (check=False)
copy_rootfs ==
    /\ pc = "cp"
    /\ \E ok \in BOOLEAN :
          IF ok
          THEN /\ pc' = "bind"
               /\ idx' = 1
               /\ StartStep("copy_rootfs", "install_kernel_and_bootloader")
               /\ UNCHANGED <<result, error>>
          ELSE /\ Raise("cp", NoPath)
               /\ UNCHANGED <<idx, steps, completed>>
    /\ UNCHANGED <<ledgerVars, attempt, loop_device, partition_device, waitVars,
                   pending, hostVars, cmds, observed, cleanups,
                   image_size_mb, image_bytes, otherParts>>

\* install_kernel_and_bootloader: "for fs in ['/proc', '/sys', '/dev']:
\* mount --bind fs target" (check=True, before the try)
install_bind ==
    /\ pc = "bind"
    /\ \E ok \in BOOLEAN :
          IF ok
          THEN /\ bindMounted' = bindMounted \cup {BindOrder[idx]}
               /\ IF idx = Len(BindOrder)
                  THEN pc' = "detect" /\ idx' = 1
                  ELSE pc' = "bind" /\ idx' = idx + 1
               /\ UNCHANGED <<result, error>>
          ELSE /\ Raise("bind", NoPath)
               /\ UNCHANGED <<bindMounted, idx>>
    /\ UNCHANGED <<ledgerVars, attempt, loop_device, partition_device, waitVars,
                   pending, clock, attached, nodes, dirs, dataMounted, distro, os_release, steps,
                   completed, cmds, observed, cleanups,
                   image_size_mb, image_bytes, otherParts>>

\* install_kernel_and_bootloader: the choice by etc/os-release
SequenceFor(d) ==
    IF d = "alpine" THEN "install_alpine"
    ELSE IF d = "debian" THEN "install_debian"
    ELSE "install_generic"

\* str.lower, on one word
Lower(w) ==
    IF w = "Alpine" THEN "alpine"
    ELSE IF w = "Ubuntu" THEN "ubuntu"
    ELSE w
\* "'alpine' in os_release.lower()"
Contains(text, w) == w \in {Lower(x) : x \in text}

\* the if / elif / else with the Debian test first
FamilyDebianFirst(text) ==
    IF Contains(text, "debian") \/ Contains(text, "ubuntu") THEN "debian"
    ELSE IF Contains(text, "alpine") THEN "alpine"
    ELSE "unknown"

\* "if 'alpine' in os_release.lower(): ... elif 'debian' in os_release.lower()
\* or 'ubuntu' in os_release.lower(): ... else: ..."
Family(text) ==
    IF Contains(text, "alpine") THEN "alpine"
    ELSE IF Contains(text, "debian") \/ Contains(text, "ubuntu") THEN "debian"
    ELSE "unknown"

\* "if os.path.exists(os_release_path): ... os_release = f.read()"
install_read ==
    /\ pc = "detect"
    /\ \E file \in OsReleaseFiles : os_release' = file
    /\ pc' = "classify"
    /\ UNCHANGED <<ledgerVars, attempt, loop_device, partition_device, waitVars,
                   idx, pending, result, error, clock, attached, nodes, dirs,
                   dataMounted, bindMounted, distro, steps, completed, cmds,
                   observed, cleanups, image_size_mb, image_bytes, otherParts>>

\* the branch taken on the text; the sequence entered does not read os_release
install_detect ==
    /\ pc = "classify"
    /\ distro' = IF os_release.exists THEN Family(os_release.text) ELSE "missing"
    /\ pc' = SequenceFor(distro')
    /\ idx' = 1
    /\ UNCHANGED <<ledgerVars, attempt, loop_device, partition_device, waitVars,
                   pending, result, error, clock, attached, nodes, dirs, dataMounted,
                   bindMounted, os_release, steps, completed, cmds, observed, cleanups,
                   image_size_mb, image_bytes, otherParts>>

\* chroot_commands of _install_alpine_kernel_bootloader and of
\* _install_debian_kernel_bootloader
AlpineCommands == <<"apk update", "apk add", "grub-install", "grub-mkconfig">>
DebianCommands == <<"apt-get update", "apt-get install", "grub-install", "update-grub">>
ChrootCommands == IF pc = "install_alpine" THEN AlpineCommands ELSE DebianCommands
ChrootPath(c) == [base |-> c, dev |-> 0, part |-> 0]

\* a chrooted command whose non-zero exit would raise
install_chroot_checked ==
    /\ pc \in {"install_alpine", "install_debian"}
    /\ \E ok \in BOOLEAN :
          /\ cmds' = Issued("chroot", ChrootPath(ChrootCommands[idx]), ok)
          /\ IF ~ok
             THEN /\ pending' = Error("chroot", NoPath)
                  /\ pc' = "unbind" /\ idx' = 1
             ELSE /\ UNCHANGED pending
                  /\ IF idx = Len(ChrootCommands)
                     THEN pc' = "unbind" /\ idx' = 1
                     ELSE pc' = pc /\ idx' = idx + 1
    /\ os_release' = NotRead
    /\ UNCHANGED <<ledgerVars, attempt, loop_device, partition_device, waitVars,
                   result, error, clock, attached, nodes, dirs,
                   dataMounted, bindMounted, distro, steps, completed,
                   observed, cleanups,
                   image_size_mb, image_bytes, otherParts>>

\* _install_alpine_kernel_bootloader / _install_debian_kernel_bootloader: four
\* chrooted commands, each check=False
install_chroot ==
    /\ pc \in {"install_alpine", "install_debian"}
    /\ \E ok \in BOOLEAN :
          cmds' = Issued("chroot", ChrootPath(ChrootCommands[idx]), ok)
    /\ IF idx = Len(ChrootCommands)
       THEN pc' = "unbind" /\ idx' = 1
       ELSE pc' = pc /\ idx' = idx + 1
    /\ os_release' = NotRead
    /\ UNCHANGED <<ledgerVars, attempt, loop_device, partition_device, waitVars,
                   pending, result, error, clock, attached, nodes, dirs,
                   dataMounted, bindMounted, distro, steps, completed,
                   observed, cleanups,
                   image_size_mb, image_bytes, otherParts>>

\* _install_generic_kernel_bootloader: "mkdir -p grub_dir", the cp of the
\* grub.cfg written to /tmp, grub-install
GenericCommands == <<"mkdir", "cp grub.cfg", "grub-install">>

\* a failing mkdir or cp that would leave install_kernel_and_bootloader at once
install_generic_no_finally ==
    /\ pc = "install_generic"
    /\ \E ok \in BOOLEAN :
        /\ cmds' = Issued(GenericCommands[idx], GuestPath("boot/grub"), ok)
        /\ IF idx = 3
          THEN pc' = "unbind" /\ idx' = 1 /\ UNCHANGED <<pending, result, error>>
          ELSE IF ok
          THEN pc' = pc /\ idx' = idx + 1 /\ UNCHANGED <<pending, result, error>>
          ELSE /\ Raise(IF idx = 1 THEN "mkdir" ELSE "cp_grub_cfg", NoPath)
               /\ UNCHANGED <<pending, idx>>
    /\ os_release' = NotRead
    /\ UNCHANGED <<ledgerVars, attempt, loop_device, partition_device, waitVars,
                   clock, attached, nodes, dirs,
                   dataMounted, bindMounted, distro, steps, completed, observed, cleanups,
                   image_size_mb, image_bytes, otherParts>>

\* _install_generic_kernel_bootloader: mkdir -p (check=True), cp of grub.cfg
\* (check=True), grub-install (check=False); a raise runs the finally
install_generic ==
    /\ pc = "install_generic"
    /\ \E ok \in BOOLEAN :
        /\ cmds' = Issued(GenericCommands[idx], GuestPath("boot/grub"), ok)
        /\ IF idx = 3
          THEN pc' = "unbind" /\ idx' = 1 /\ UNCHANGED pending
          ELSE IF ok
          THEN pc' = pc /\ idx' = idx + 1 /\ UNCHANGED pending
          ELSE /\ pending' = Error(IF idx = 1 THEN "mkdir" ELSE "cp_grub_cfg", NoPath)
               /\ pc' = "unbind"
               /\ idx' = 1
    /\ os_release' = NotRead
    /\ UNCHANGED <<ledgerVars, attempt, loop_device, partition_device, waitVars,
                   result, error, clock, attached, nodes, dirs,
                   dataMounted, bindMounted, distro, steps, completed,
                   observed, cleanups,
                   image_size_mb, image_bytes, otherParts>>

\* install_kernel_and_bootloader, finally: "for fs in ['/dev', '/sys', '/proc']:
\* umount target" (check=False); then the pending exception, if any, goes on
install_unbind ==
    /\ pc = "unbind"
    /\ \E ok \in BOOLEAN :
          LET fs == UnbindOrder[idx]
              done == ok /\ fs \in bindMounted
          IN  /\ bindMounted' = IF done THEN bindMounted \ {fs} ELSE bindMounted
              /\ cmds' = Issued("umount", GuestPath(fs), done)
    /\ IF idx < Len(UnbindOrder)
       THEN /\ pc' = "unbind"
            /\ idx' = idx + 1
            /\ UNCHANGED <<result, error, steps, completed, pending>>
       ELSE IF pending # NoError
       THEN /\ Raise(pending.kind, pending.path)
            /\ pending' = NoError
            /\ UNCHANGED <<idx, steps, completed>>
       ELSE /\ pc' = "umount"
            /\ StartStep("install_kernel_and_bootloader", "unmount_and_cleanup")
            /\ UNCHANGED <<idx, result, error, pending>>
    /\ UNCHANGED <<ledgerVars, attempt, loop_device, partition_device, waitVars,
                   clock, attached, nodes, dirs, dataMounted, distro, os_release,
                   observed, cleanups,
                   image_size_mb, image_bytes, otherParts>>

\* unmount_and_cleanup: umount mount_point (check=False), then "return
\* output_path".  A mount point with mounts below it is busy.
unmount_and_cleanup ==
    /\ pc = "umount"
    /\ \E ok \in BOOLEAN :
          LET done == ok /\ dataMounted /\ bindMounted = {}
          IN  /\ dataMounted' = IF done THEN FALSE ELSE dataMounted
              /\ cmds' = Issued("umount", DirPath(MountPoint), done)
    /\ completed' = completed \cup {"unmount_and_cleanup"}
    /\ result' = "returned"
    /\ pc' = "finally"
    /\ UNCHANGED <<ledgerVars, attempt, loop_device, partition_device, waitVars, idx,
                   pending, error, clock, attached, nodes, dirs, bindMounted, distro, os_release,
                   steps, observed, cleanups,
                   image_size_mb, image_bytes, otherParts>>

\* the kernel keeps a loop device whose partition is mounted or mapped
Busy(ld) ==
    \/ dataMounted /\ partition_device.dev = ld.dev
    \/ MapperPath(ld, 1) \in nodes

\* where cleanup goes after the loop devices, and after the directories
AfterLoopDevices == IF Len(temp_dirs) > 0 THEN "cleanup_rmtree" ELSE "done"

\* convert_to_bootable_image, finally: self.cleanup()
cleanup ==
    /\ pc = "finally"
    /\ steps' = Append(steps, "cleanup")
    /\ idx' = 1
    /\ cleanups' = cleanups + 1
    /\ pc' = IF Len(loop_devices) > 0 THEN "cleanup_kpartx" ELSE AfterLoopDevices
    /\ completed' = IF Len(loop_devices) = 0 /\ Len(temp_dirs) = 0
                    THEN completed \cup {"cleanup"} ELSE completed
    /\ UNCHANGED <<ledgerVars, attempt, loop_device, partition_device, waitVars,
                   pending, result, error, hostVars, cmds, observed,
                   image_size_mb, image_bytes, otherParts>>

\* cleanup() called once more on the same ImageConverter
cleanup_again ==
    /\ pc = "done"
    /\ cleanups < MaxCleanups
    /\ cleanups' = cleanups + 1
    /\ idx' = 1
    /\ pc' = IF Len(loop_devices) > 0 THEN "cleanup_kpartx" ELSE AfterLoopDevices
    /\ UNCHANGED <<ledgerVars, attempt, loop_device, partition_device, waitVars,
                   pending, result, error, hostVars, steps, completed, cmds,
                   observed,
                   image_size_mb, image_bytes, otherParts>>

\* cleanup: kpartx -d loop_device (check=False, any exception swallowed)
cleanup_kpartx ==
    /\ pc = "cleanup_kpartx"
    /\ \E ok \in BOOLEAN :
          LET ld == loop_devices[idx]
              mapped == MapperPath(ld, 1) \in nodes
              inUse == dataMounted /\ partition_device = MapperPath(ld, 1)
              done == ok /\ mapped /\ ~inUse
          IN  /\ nodes' = IF done THEN nodes \ {MapperPath(ld, 1)} ELSE nodes
              /\ cmds' = IssuedQuietly("kpartx -d", ld, done)
    /\ pc' = "cleanup_losetup"
    /\ UNCHANGED <<ledgerVars, attempt, loop_device, partition_device, waitVars, idx,
                   pending, result, error, clock, attached, dirs, dataMounted,
                   bindMounted, distro, os_release, steps, completed,
                   observed, cleanups,
                   image_size_mb, image_bytes, otherParts>>

\* losetup -d whose failure would end cleanup with an error of its own
cleanup_losetup_raising ==
    /\ pc = "cleanup_losetup"
    /\ \E ok \in BOOLEAN :
          LET ld == loop_devices[idx]
              done == ok /\ ld.dev \in attached /\ ~Busy(ld)
          IN  /\ attached' = IF done THEN attached \ {ld.dev} ELSE attached
              /\ nodes' = IF done THEN nodes \ {ExpectedPath(ld, 1)} ELSE nodes
              /\ cmds' = IssuedQuietly("losetup -d", ld, done)
              /\ IF ~ok
                 THEN /\ pc' = "done" /\ idx' = 1
                      /\ result' = "raised" /\ error' = Error("losetup -d", ld)
                      /\ completed' = completed
                 ELSE /\ UNCHANGED <<result, error>>
                      /\ IF idx < Len(loop_devices)
                         THEN pc' = "cleanup_kpartx" /\ idx' = idx + 1 /\ UNCHANGED completed
                         ELSE /\ pc' = AfterLoopDevices
                              /\ idx' = 1
                              /\ completed' = IF AfterLoopDevices = "done"
                                              THEN completed \cup {"cleanup"}
                                              ELSE completed
    /\ UNCHANGED <<ledgerVars, attempt, loop_device, partition_device, waitVars,
                   pending, clock, dirs, dataMounted, bindMounted, distro, os_release, steps,
                   observed, cleanups,
                   image_size_mb, image_bytes, otherParts>>

\* cleanup: losetup -d loop_device (check=False, any exception swallowed)
cleanup_losetup ==
    /\ pc = "cleanup_losetup"
    /\ \E ok \in BOOLEAN :
          LET ld == loop_devices[idx]
              done == ok /\ ld.dev \in attached /\ ~Busy(ld)
          IN  /\ attached' = IF done THEN attached \ {ld.dev} ELSE attached
              /\ nodes' = IF done THEN nodes \ {ExpectedPath(ld, 1)} ELSE nodes
              /\ cmds' = IssuedQuietly("losetup -d", ld, done)
    /\ IF idx < Len(loop_devices)
       THEN pc' = "cleanup_kpartx" /\ idx' = idx + 1 /\ UNCHANGED completed
       ELSE /\ pc' = AfterLoopDevices
            /\ idx' = 1
            /\ completed' = IF AfterLoopDevices = "done"
                            THEN completed \cup {"cleanup"} ELSE completed
    /\ UNCHANGED <<ledgerVars, attempt, loop_device, partition_device, waitVars,
                   pending, result, error, clock, dirs, dataMounted, bindMounted,
                   distro, os_release, steps, observed, cleanups,
                   image_size_mb, image_bytes, otherParts>>

\* cleanup: shutil.rmtree(temp_dir, ignore_errors=True); a directory that is a
\* mount point cannot be removed
cleanup_rmtree ==
    /\ pc = "cleanup_rmtree"
    /\ \E ok \in BOOLEAN :
          LET d == temp_dirs[idx]
              done == ok /\ d \in dirs /\ ~(dataMounted /\ d = MountPoint)
          IN  /\ dirs' = IF done THEN dirs \ {d} ELSE dirs
              /\ cmds' = IssuedQuietly("rmtree", DirPath(d), done)
    /\ IF idx < Len(temp_dirs)
       THEN pc' = "cleanup_rmtree" /\ idx' = idx + 1 /\ UNCHANGED completed
       ELSE pc' = "done" /\ idx' = 1 /\ completed' = completed \cup {"cleanup"}
    /\ UNCHANGED <<ledgerVars, attempt, loop_device, partition_device, waitVars,
                   pending, result, error, clock, attached, nodes, dataMounted,
                   bindMounted, distro, os_release, steps, observed, cleanups,
                   image_size_mb, image_bytes, otherParts>>

NextDisk ==
    \/ Call
    \/ create_disk_image
    \/ partition_disk_losetup
    \/ partition_disk_check
    \/ partition_disk_verify
    \/ partition_disk_parted
    \/ partition_disk_partprobe
    \/ UdevLoopNode
    \/ UdevPartitionNode
    \/ format_partition
    \/ wait_expected
    \/ wait_mapper
    \/ wait_lsblk
    \/ wait_act
    \/ wait_timeout
    \/ format_partition_mkfs
    \/ mount_partition_mkdtemp
    \/ mount_partition
    \/ copy_rootfs
    \/ install_bind
    \/ install_read
    \/ install_detect
    \/ install_chroot
    \/ install_generic
    \/ install_unbind
    \/ unmount_and_cleanup
    \/ cleanup
    \/ cleanup_again
    \/ cleanup_kpartx
    \/ cleanup_losetup
    \/ cleanup_rmtree

SpecDisk == InitDisk /\ [][NextDisk]_vars

\* the program's own steps (not the device manager's): a running call goes on
StepDisk ==
    \/ Call \/ create_disk_image \/ partition_disk_losetup \/ partition_disk_check
    \/ partition_disk_verify \/ partition_disk_parted \/ partition_disk_partprobe
    \/ format_partition \/ wait_expected \/ wait_mapper \/ wait_lsblk \/ wait_act
    \/ wait_timeout \/ format_partition_mkfs \/ mount_partition_mkdtemp
    \/ mount_partition \/ copy_rootfs \/ install_bind \/ install_read \/ install_detect
    \/ install_chroot \/ install_generic \/ install_unbind \/ unmount_and_cleanup
    \/ cleanup \/ cleanup_kpartx \/ cleanup_losetup \/ cleanup_rmtree

\* one conversion of an image of the size of scenario 3, into a new file,
\* every step of which is taken in the end
InitFairDisk == InitDisk /\ image_size_mb = 1024 /\ image_bytes = 0
FairSpecDisk == InitFairDisk /\ [][NextDisk]_vars /\ WF_vars(StepDisk)

(***************************************************************************)
(* Claims about convert_to_bootable_image                                  *)
(***************************************************************************)
Range(f) == {f[i] : i \in DOMAIN f}
Tried(c, t) == \E i \in DOMAIN cmds : cmds[i].cmd = c /\ cmds[i].target = t
InWait == pc \in {"wait_expected", "wait_mapper", "wait_lsblk", "wait_act", "wait_timeout"}
Ended == pc = "done"

\* C1: when a command of convert_to_bootable_image fails, every resource that
\* the earlier steps acquired (the data-partition mount, the bind mounts, the
\* mount directory, the registered loop devices, the kpartx mapping) is
\* released when the call has raised.  A resource whose release command was
\* run and did not succeed is not counted.
C1_ReleasedOnFailure ==
    (Ended /\ result = "raised") =>
        /\ dataMounted => Tried("umount", DirPath(MountPoint))
        /\ \A fs \in bindMounted : Tried("umount", GuestPath(fs))
        /\ \A d \in dirs : Tried("rmtree", DirPath(d))
        /\ \A i \in DOMAIN loop_devices :
              /\ loop_devices[i].dev \in attached
                    => Tried("losetup -d", loop_devices[i])
              /\ MapperPath(loop_devices[i], 1) \in nodes
                    => Tried("kpartx -d", loop_devices[i])

\* C2: once the data partition is mounted, no losetup -d of the loop device and
\* no removal of the mount directory is run while the partition is still
\* mounted on that directory, on any exit path.
C2_NoReleaseUnderMount ==
    \A i \in DOMAIN cmds :
        cmds[i].cmd \in {"losetup -d", "rmtree"} => ~cmds[i].mounted

\* C4: the steps start in the order of StepOrder, each at most once and none
\* skipped; a pipeline step starts only if every earlier one returned without
\* raising; cleanup (the finally block) is the last step of every call; a call
\* that returns has run all the steps, any other call has raised.
C4_StepOrder ==
    /\ \E k \in 0..7 :
          \/ steps = SubSeq(StepOrder, 1, k)
          \/ steps = Append(SubSeq(StepOrder, 1, k), "cleanup")
    /\ \A i \in DOMAIN steps :
          steps[i] # "cleanup" => \A j \in 1..(i - 1) : StepOrder[j] \in completed
    /\ completed \subseteq Range(steps)
    /\ Ended =>
          /\ steps[Len(steps)] = "cleanup"
          /\ result \in {"returned", "raised"}
          /\ result = "returned" => steps = StepOrder /\ completed = Range(StepOrder)
          /\ result = "raised" => error # NoError

C4_Witness == Ended /\ result = "returned" /\ steps = StepOrder

\* C5: the wait for the partition node always ends: it returns a path that
\* exists, or, once elapsed has reached the timeout, raises an error naming the
\* expected primary path, and then mkfs was never run.
C5_WaitTerminates ==
    /\ [](error.kind = "partition_timeout" =>
             /\ elapsed >= timeout
             /\ error.path = ExpectedPath(loop_device, 1)
             /\ error.path.base = "loop" /\ error.path.part = 1
             /\ partition_device = NoPath
             /\ "format_partition" \notin completed
             /\ "mount_partition" \notin Range(steps))
    /\ [](pc = "mkfs" => Exists(partition_device))
    /\ (InWait ~> (pc = "mkfs" \/ error.kind = "partition_timeout"))

C5_Witness == Ended /\ error.kind = "partition_timeout" /\ attempted_kpartx

\* C6: partition_disk runs losetup at most max_retries times; a device is
\* registered, and partitioned, only if its path exists; when no attempt gave
\* a path that passed the check (nothing was registered), parted is not run.
C6_AttachVerified ==
    /\ attempt <= max_retries
    /\ pc = "losetup" => attempt < max_retries
    /\ \A i \in DOMAIN loop_devices : Exists(loop_devices[i])
    /\ pc = "parted" => Exists(loop_device)
    /\ pc = "parted" => loop_device \in Range(loop_devices)

(***************************************************************************)
(* DockerToBootableApp.convert_docker_image, called by NumThreads threads  *)
(* on one app object                                                       *)
(***************************************************************************)
Threads == 1..NumThreads
ImageUrls == {"", "  ", "alpine:latest"}
ImageSizes == {MinImageSize - 1, MinImageSize, 4 * MinImageSize}
NoInput == [image_url |-> "", image_size_mb |-> 0]
\* the choices of the platform field, and the default of the client's methods
DefaultPlatform == "linux/amd64"
AppPlatforms == {DefaultPlatform, "linux/arm64"}
NoPlatform == [requested |-> DefaultPlatform, used |-> <<>>]
\* the image in the registry: the number of layers of its manifest for a platform
PlatformLayers(p) == IF p = DefaultPlatform THEN 1 ELSE 2
NoResult == [status |-> "none", path |-> "None"]
\* the stages that run inside a try of their own, and the message of its except
Stages == <<"connect", "info", "download", "extract", "convert">>
NextStage(st) ==
    IF st = "parse" THEN "connect"
    ELSE IF st = "connect" THEN "info"
    ELSE IF st = "info" THEN "download"
    ELSE IF st = "download" THEN "extract"
    ELSE IF st = "extract" THEN "convert"
    ELSE "output"
\* str.strip() of the URLs of the model
Strip(u) == IF u = "  " THEN "" ELSE u
\* inside the with block
Inside(t) == tpc[t] \notin {"idle", "blocked"}

\* DockerToBootableApp.__init__
InitApp ==
    /\ tpc = [t \in Threads |-> "idle"]
    /\ conversion_lock = 0
    /\ tinput = [t \in Threads |-> NoInput]
    /\ tresult = [t \in Threads |-> NoResult]
    /\ tstages = [t \in Threads |-> <<>>]
    /\ tdirs = [t \in Threads |-> {}]
    /\ tplatforms = [t \in Threads |-> NoPlatform]
    /\ diskInit /\ resInit /\ parseInit

\* a thread calls convert_docker_image and reaches "with self.conversion_lock"
app_call(t) ==
    /\ tpc[t] = "idle"
    /\ \E u \in ImageUrls, n \in ImageSizes :
          tinput' = [tinput EXCEPT ![t] = [image_url |-> u, image_size_mb |-> n]]
    /\ tplatforms' = [tplatforms EXCEPT ![t] = NoPlatform]
    /\ tpc' = [tpc EXCEPT ![t] = "blocked"]
    /\ tresult' = [tresult EXCEPT ![t] = NoResult]
    /\ tstages' = [tstages EXCEPT ![t] = <<>>]
    /\ tdirs' = [tdirs EXCEPT ![t] = {}]
    /\ UNCHANGED <<conversion_lock, diskVars, resVars, parseVars>>

\* app_acquire for a lock that does not exclude (one made per call)
app_acquire_unguarded(t) ==
    /\ tpc[t] = "blocked"
    /\ conversion_lock' = t
    /\ tpc' = [tpc EXCEPT ![t] = "validate"]
    /\ UNCHANGED <<tinput, tresult, tstages, tdirs, tplatforms, diskVars, resVars, parseVars>>

\* "with self.conversion_lock:" is entered: threading.Lock.acquire
app_acquire(t) ==
    /\ tpc[t] = "blocked"
    /\ conversion_lock = 0
    /\ conversion_lock' = t
    /\ tpc' = [tpc EXCEPT ![t] = "validate"]
    /\ UNCHANGED <<tinput, tresult, tstages, tdirs, tplatforms, diskVars, resVars, parseVars>>

\* a return statement inside the with block: the value is set, the lock is
\* released when the block is left
Return(t, status, path) ==
    /\ tresult' = [tresult EXCEPT ![t] = [status |-> status, path |-> path]]
    /\ tpc' = [tpc EXCEPT ![t] = "release"]

\* the validations with "if not image_url:" and "image_size_mb <= 0"
app_validate_loose(t) ==
    /\ tpc[t] = "validate"
    /\ \E progress_ok \in BOOLEAN :
          IF ~progress_ok
          THEN Return(t, "unexpected error", "None")
          ELSE IF tinput[t].image_url = ""
          THEN Return(t, "error: no image url", "None")
          ELSE IF tinput[t].image_size_mb <= 0
          THEN Return(t, "error: image size", "None")
          ELSE /\ tpc' = [tpc EXCEPT ![t] = "parse"]
               /\ UNCHANGED tresult
    /\ UNCHANGED <<conversion_lock, tinput, tstages, tdirs, tplatforms, diskVars, resVars, parseVars>>

\* progress(0, ...), which may raise into the outer except, and the two
\* validations
app_validate(t) ==
    /\ tpc[t] = "validate"
    /\ \E progress_ok \in BOOLEAN :
          IF ~progress_ok
          THEN Return(t, "unexpected error", "None")
          ELSE IF Strip(tinput[t].image_url) = ""
          THEN Return(t, "error: no image url", "None")
          ELSE IF tinput[t].image_size_mb < MinImageSize
          THEN Return(t, "error: image size", "None")
          ELSE /\ tpc' = [tpc EXCEPT ![t] = "parse"]
               /\ UNCHANGED tresult
    /\ UNCHANGED <<conversion_lock, tinput, tstages, tdirs, tplatforms, diskVars, resVars, parseVars>>

\* DockerRegistryClient.parse_image_url(image_url.strip()): string operations
\* on a string, which do not raise
app_parse(t) ==
    /\ tpc[t] = "parse"
    /\ tpc' = [tpc EXCEPT ![t] = NextStage("parse")]
    /\ tstages' = [tstages EXCEPT ![t] = Append(@, "parse")]
    \* the platform argument is not read before the stages: its value is
    \* drawn here, for the calls that get this far
    /\ \E p \in AppPlatforms :
          tplatforms' = [tplatforms EXCEPT ![t] = [requested |-> p, used |-> <<>>]]
    /\ UNCHANGED <<conversion_lock, tinput, tresult, tdirs, diskVars, resVars, parseVars>>

\* the directory that a stage makes before its work: tempfile.mkdtemp in
\* download and extract, mount_partition's in convert_to_bootable_image
StageDir(st) ==
    IF st = "download" THEN "docker_layers"
    ELSE IF st = "extract" THEN "docker_rootfs"
    ELSE IF st = "convert" THEN "bootable_mount"
    ELSE "none"
\* the directories that the stage leaves behind when it ends: the app removes
\* none; ImageConverter.cleanup removes the mount directory unless rmtree fails
DirsLeft(st) ==
    IF st \in {"download", "extract"} THEN {{StageDir(st)}}
    ELSE IF st = "convert" THEN {{}, {StageDir(st)}}
    ELSE {{}}

\* the platform argument of the stage's call into the registry client:
\* "client.get_image_info(tag)", whose platform parameter defaults to
\* 'linux/amd64', and "client.download_all_layers(tag, temp_layers_dir, platform)"
StagePlatform(st, asked) ==
    IF st = "info" THEN DefaultPlatform ELSE asked
\* get_image_info and download_all_layers each call get_manifest(tag, platform)
\* first; layers is the number of layers of the manifest when the call returned
Resolutions(t, made, ok) ==
    IF tpc[t] \in {"info", "download"} /\ made
    THEN LET p == StagePlatform(tpc[t], tplatforms[t].requested)
         IN  [tplatforms[t] EXCEPT !.used =
                 Append(@, [stage |-> tpc[t], platform |-> p,
                            layers |-> IF ok THEN PlatformLayers(p) ELSE 0])]
    ELSE tplatforms[t]

\* a stage that goes on to the next one after its except has run
app_stage_goes_on(t) ==
    /\ tpc[t] \in Range(Stages)
    /\ tstages' = [tstages EXCEPT ![t] = Append(@, tpc[t])]
    /\ \E ok \in BOOLEAN, made \in BOOLEAN, left \in DirsLeft(tpc[t]) :
          /\ tdirs' = [tdirs EXCEPT ![t] = IF made THEN @ \cup left ELSE @]
          /\ tplatforms' = [tplatforms EXCEPT ![t] = Resolutions(t, made, ok)]
          /\ tpc' = [tpc EXCEPT ![t] = NextStage(tpc[t])]
          /\ tresult' = IF ok /\ made THEN tresult
                        ELSE [tresult EXCEPT ![t] = [status |-> tpc[t], path |-> "None"]]
    /\ UNCHANGED <<conversion_lock, tinput, diskVars, resVars, parseVars>>

\* one of the stages connect, info, download, extract, convert: its directory
\* is made (or making it raises), its work is done (or raises); the try block
\* ends normally, or its except returns the stage's error
app_stage(t) ==
    /\ tpc[t] \in Range(Stages)
    /\ tstages' = [tstages EXCEPT ![t] = Append(@, tpc[t])]
    /\ \E ok \in BOOLEAN, made \in BOOLEAN, left \in DirsLeft(tpc[t]) :
          /\ tdirs' = [tdirs EXCEPT ![t] = IF made THEN @ \cup left ELSE @]
          /\ tplatforms' = [tplatforms EXCEPT ![t] = Resolutions(t, made, ok)]
          /\ IF ok /\ made
             THEN /\ tpc' = [tpc EXCEPT ![t] = NextStage(tpc[t])]
                  /\ UNCHANGED tresult
             ELSE Return(t, tpc[t], "None")
    /\ UNCHANGED <<conversion_lock, tinput, diskVars, resVars, parseVars>>

\* "if os.path.exists(output_path)": the success result, or the error
app_output(t) ==
    /\ tpc[t] = "output"
    /\ \E exists \in BOOLEAN :
          IF exists
          THEN Return(t, "success", "output_path")
          ELSE Return(t, "error: output file was not created", "None")
    /\ UNCHANGED <<conversion_lock, tinput, tstages, tdirs, tplatforms, diskVars, resVars, parseVars>>

\* a lock released by the return of a path only, as without the with block
app_release_on_success(t) ==
    /\ tpc[t] = "release"
    /\ conversion_lock' = IF tresult[t].status = "success" THEN 0 ELSE conversion_lock
    /\ tpc' = [tpc EXCEPT ![t] = "idle"]
    /\ tplatforms' = [tplatforms EXCEPT ![t] = NoPlatform]
    /\ UNCHANGED <<tinput, tresult, tstages, tdirs, diskVars, resVars, parseVars>>

\* the with block is left: threading.Lock.release, and the call returns (its
\* platform argument and its resolutions are gone with it)
app_release(t) ==
    /\ tpc[t] = "release"
    /\ conversion_lock' = 0
    /\ tpc' = [tpc EXCEPT ![t] = "idle"]
    /\ tplatforms' = [tplatforms EXCEPT ![t] = NoPlatform]
    /\ UNCHANGED <<tinput, tresult, tstages, tdirs, diskVars, resVars, parseVars>>

NextApp ==
    \E t \in Threads :
        \/ app_call(t)
        \/ app_acquire(t)
        \/ app_validate(t)
        \/ app_parse(t)
        \/ app_stage(t)
        \/ app_output(t)
        \/ app_release(t)

SpecApp == InitApp /\ [][NextApp]_vars

\* the steps of a conversion that has the lock: each is taken in the end
\* ("every conversion terminates")
StepApp(t) ==
    \/ app_validate(t) \/ app_parse(t) \/ app_stage(t) \/ app_output(t)
    \/ app_release(t)
\* threading.Lock.acquire of a waiting thread: a waiter is not passed over
\* for ever by threads that call again
FairApp == \A t \in Threads : WF_vars(StepApp(t)) /\ SF_vars(app_acquire(t))
FairSpecApp == InitApp /\ [][NextApp]_vars /\ FairApp

\* C3: at most one thread is inside the conversion (between the acquisition of
\* the lock, before input validation, and its release at the return), and it
\* is the holder of the lock: no step of a conversion is taken while another
\* thread is inside.
C3_OneConversion ==
    /\ \A t1, t2 \in Threads : (Inside(t1) /\ Inside(t2)) => t1 = t2
    /\ \A t \in Threads : Inside(t) => conversion_lock = t

C3_Witness ==
    \E t1, t2 \in Threads :
        /\ t1 # t2
        /\ tpc[t1] = "convert"
        /\ tpc[t2] = "blocked"
        /\ tresult[t2] = NoResult

(***************************************************************************)
(* DockerRegistryClient.get_manifest                                       *)
(*                                                                         *)
(* A string is the sequence of its parts, "/" and "-" being parts of their *)
(* own: "linux/arm/v7" is <<"linux", "/", "arm", "/", "v7">>.  A dictionary *)
(* is a record of the keys the code asks for by name, plus items, the      *)
(* other keys in insertion order.  A value is tagged with its Python type: *)
(* "dict", "text" (a str holding the JSON of a dictionary), "textlist" (a  *)
(* str holding the JSON of an array), "badtext" (a str that is not JSON),  *)
(* "null" (None) and "other".                                              *)
(***************************************************************************)
S1(a) == <<a>>
S2(a, b) == <<a, "/", b>>
S3(a, b, c) == <<a, "/", b, "/", c>>
None == <<>>

\* the dictionary {}
EmptyDict ==
    [schemaVersion |-> 0, mediaType |-> "", hasLayers |-> FALSE, layers |-> <<>>,
     hasFsLayers |-> FALSE, fsLayers |-> <<>>,
     hasManifests |-> FALSE, manifests |-> <<>>, items |-> <<>>]
Val(t, d) == [t |-> t, doc |-> d]
NullVal == Val("null", EmptyDict)
OtherVal == Val("other", EmptyDict)
Item(k, v) == [key |-> k, value |-> v]

\* len(manifest)
DictLen(d) ==
    (IF d.schemaVersion # 0 THEN 1 ELSE 0) + (IF d.mediaType # "" THEN 1 ELSE 0)
    + (IF d.hasLayers THEN 1 ELSE 0)
    + (IF d.hasFsLayers THEN 1 ELSE 0) + (IF d.hasManifests THEN 1 ELSE 0)
    + Len(d.items)

\* the media types of manifest lists and indexes
DockerListMediaType == "application/vnd.docker.distribution.manifest.list.v2+json"
OciIndexMediaType == "application/vnd.oci.image.index.v1+json"
ListMediaTypes == {DockerListMediaType, OciIndexMediaType}
ManifestMediaType == "application/vnd.docker.distribution.manifest.v2+json"

\* ---- the documents of the model -----------------------------------------
\* a blob digest "sha256:<hex>"
Blob(hex) == <<"sha256", ":", hex>>
Schema2(layer) ==
    [EmptyDict EXCEPT !.schemaVersion = 2, !.mediaType = ManifestMediaType,
                      !.hasLayers = TRUE, !.layers = <<layer>>]
Schema1(layer) ==
    [EmptyDict EXCEPT !.schemaVersion = 1, !.hasFsLayers = TRUE, !.fsLayers = <<layer>>]
ManifestList(entries) ==
    [EmptyDict EXCEPT !.schemaVersion = 2, !.mediaType = DockerListMediaType,
                      !.hasManifests = TRUE, !.manifests = entries]
Index(entries) == [ManifestList(entries) EXCEPT !.mediaType = OciIndexMediaType]
\* concrete manifests with no layer: layers: [], fsLayers: [], no layer key
NoLayers2 == [Schema2(None) EXCEPT !.layers = <<>>]
NoLayers1 == [Schema1(None) EXCEPT !.fsLayers = <<>>]
NoLayerKey == [Schema2(None) EXCEPT !.hasLayers = FALSE, !.layers = <<>>]
\* concrete manifests with several layers; None is a descriptor without the
\* 'digest' (or 'blobSum') key
Layered2(layers) == [Schema2(None) EXCEPT !.layers = layers]
Layered1(layers) == [Schema1(None) EXCEPT !.fsLayers = layers]
Legacy2(layers) == [Layered1(layers) EXCEPT !.schemaVersion = 2]
PlatformMap(pairs) == [EmptyDict EXCEPT !.items = pairs]

Entry(digest, mediaType, os, arch, variant) ==
    [digest |-> digest, mediaType |-> mediaType, hasPlatform |-> TRUE,
     os |-> os, architecture |-> arch, variant |-> variant]
BareEntry(digest, mediaType) ==
    [digest |-> digest, mediaType |-> mediaType, hasPlatform |-> FALSE,
     os |-> None, architecture |-> None, variant |-> None]
NoEntry == BareEntry("", "")

E_amd64 == Entry("sha256:amd64", ManifestMediaType, S1("linux"), S1("amd64"), None)
E_arm64v8 == Entry("sha256:arm64v8", ManifestMediaType, S1("linux"), S1("arm64"), S1("v8"))
E_armv6 == Entry("sha256:armv6", ManifestMediaType, S1("linux"), S1("arm"), S1("v6"))
E_armv7 == Entry("sha256:armv7", ManifestMediaType, S1("linux"), S1("arm"), S1("v7"))
E_index == BareEntry("sha256:index", OciIndexMediaType)
E_unlabelled == BareEntry("sha256:index", "")
E_loop == BareEntry("sha256:loop", DockerListMediaType)
E_empty == Entry("sha256:empty", ManifestMediaType, S1("linux"), S1("s390x"), None)
E_nodigest == Entry("", ManifestMediaType, None, S1("amd64"), None)
\* an index inside the list, with a platform of its own
E_nested == Entry("sha256:index", OciIndexMediaType, S1("linux"), S1("arm"), S1("v7"))
EntryPool == {E_amd64, E_arm64v8, E_armv6, E_armv7, E_index, E_unlabelled, E_loop,
              E_nodigest, E_empty, E_nested}

\* what the registry holds under each digest
Registry(digest) ==
    CASE digest = "sha256:amd64" -> Schema2(Blob("layer-amd64"))
      [] digest = "sha256:arm64v8" -> Schema2(Blob("layer-arm64v8"))
      [] digest = "sha256:armv6" -> Schema1(Blob("layer-armv6"))
      [] digest = "sha256:armv7" -> Schema2(Blob("layer-armv7"))
      [] digest = "sha256:index" -> Index(<<E_armv7, E_amd64>>)
      [] digest = "sha256:empty" -> NoLayers2
      [] digest = "sha256:loop" -> ManifestList(<<E_loop>>)
      [] OTHER -> EmptyDict

PairPool ==
    {Item(S2("linux", "amd64"), Val("text", Schema2(Blob("layer-amd64")))),
     Item(S3("linux", "arm64", "v8"), Val("text", Schema2(Blob("layer-arm64v8")))),
     Item(S3("linux", "arm", "v7"), Val("dict", Schema2(Blob("layer-armv7")))),
     Item(S2("linux", "arm64"), Val("text", ManifestList(<<E_arm64v8>>))),
     Item(S3("linux", "arm", "v6"), Val("badtext", EmptyDict)),
     Item(S2("linux", "386"), NullVal),
     Item(S2("linux", "s390x"), Val("textlist", EmptyDict))}

Platforms ==
    {S2("linux", "amd64"), S2("linux", "arm64"), S3("linux", "arm64", "v8"),
     S3("linux", "arm", "v7"), S3("linux", "arm", "v6"), S2("linux", "s390x"),
     S1("arm64"), <<"linux", "-", "amd64">>}

\* the sequences of at most n different members of a set
RECURSIVE Arrangements(_, _)
Arrangements(set, n) ==
    IF n = 0 THEN {<<>>}
    ELSE {<<>>} \cup
         UNION {{<<x>> \o rest : rest \in Arrangements(set \ {x}, n - 1)} : x \in set}

RECURSIVE Lists(_, _)
\* every list of at most n descriptors drawn from set, repeats included
Lists(set, n) ==
    IF n = 0 THEN {<<>>}
    ELSE {<<>>} \cup {<<x>> \o rest : x \in set, rest \in Lists(set, n - 1)}
LayerPool == {Blob("aa"), Blob("bb"), None}
LayerLists == {ls \in Lists(LayerPool, MaxLayers) : Len(ls) >= 2}

RawDocs ==
    {ManifestList(es) : es \in Arrangements(EntryPool, MaxEntries)}
    \cup {Index(es) : es \in Arrangements(EntryPool, 1)}
    \cup {PlatformMap(ps) : ps \in Arrangements(PairPool, MaxEntries)}
    \cup {Layered2(ls) : ls \in LayerLists} \cup {Layered1(ls) : ls \in LayerLists}
    \cup {Schema2(Blob("layer-single")), Schema1(Blob("layer-legacy")),
          NoLayers2, NoLayers1, NoLayerKey,
          Legacy2(<<Blob("aa"), Blob("bb")>>),
          PlatformMap(<<Item(S2("linux", "amd64"),
                             Val("text", Schema2(Blob("layer-amd64")))),
                        Item(S1("tag"), OtherVal)>>)}
\* dxf.get_manifest(tag): JSON text, a dictionary, or something else
RawAnswers ==
    {Val(t, d) : t \in {"text", "dict"}, d \in RawDocs}
    \cup {Val("badtext", EmptyDict), Val("textlist", EmptyDict), OtherVal}

\* ---- str and dict operations the resolver uses ---------------------------
\* the index of the first "/" of a string, 0 when it has none
SlashAt(str) ==
    IF \E i \in DOMAIN str : str[i] = "/"
    THEN CHOOSE i \in DOMAIN str : str[i] = "/" /\ \A j \in 1..(i - 1) : str[j] # "/"
    ELSE 0
\* str.partition('/')
Partition(str) ==
    IF SlashAt(str) = 0 THEN <<str, <<>>, <<>>>>
    ELSE <<SubSeq(str, 1, SlashAt(str) - 1), <<"/">>,
           SubSeq(str, SlashAt(str) + 1, Len(str))>>
\* str.replace('-', '/')
Replace(str) == [i \in DOMAIN str |-> IF str[i] = "-" THEN "/" ELSE str[i]]
\* json.loads of a str: the value the text encodes
Loads(v) ==
    CASE v.t = "text" -> Val("dict", v.doc)
      [] v.t = "textlist" -> Val("list", EmptyDict)
      [] OTHER -> v
\* dict.get(key) for a key that is not one of the named ones
Get(d, key) ==
    IF \E i \in DOMAIN d.items : d.items[i].key = key
    THEN d.items[CHOOSE i \in DOMAIN d.items : d.items[i].key = key].value
    ELSE NullVal

target_arch(p) == IF Partition(p)[3] = <<>> THEN Partition(p)[1] ELSE Partition(p)[3]
target_os(p) == IF Partition(p)[3] = <<>> THEN S1("linux") ELSE Partition(p)[1]

\* entry_platform.get('architecture'), entry_platform.get('os', 'linux')
EntryArch(entry) == IF entry.hasPlatform THEN entry.architecture ELSE None
EntryOs(entry) ==
    IF entry.hasPlatform /\ entry.os # None THEN entry.os ELSE S1("linux")
Matches(entry, p) ==
    /\ EntryArch(entry) # None
    /\ EntryArch(entry) = target_arch(p)
    /\ EntryOs(entry) = target_os(p)
\* the last entry instead of the first when no entry matches
BestMatchLast(entries, p) ==
    IF \E i \in DOMAIN entries : Matches(entries[i], p)
    THEN entries[CHOOSE i \in DOMAIN entries :
                     /\ Matches(entries[i], p)
                     /\ \A j \in 1..(i - 1) : ~Matches(entries[j], p)]
    ELSE entries[Len(entries)]
\* the entry the loop breaks on, else manifest['manifests'][0]
BestMatch(entries, p) ==
    IF \E i \in DOMAIN entries : Matches(entries[i], p)
    THEN entries[CHOOSE i \in DOMAIN entries :
                     /\ Matches(entries[i], p)
                     /\ \A j \in 1..(i - 1) : ~Matches(entries[j], p)]
    ELSE entries[1]
\* the requested platform handed on whatever the entry says
platform_str_requested(entry, p) == p
\* platform_str: the os (default linux) and architecture of the entry's
\* platform, or the requested platform for an entry without one
platform_str(entry, p) ==
    IF entry.hasPlatform
    THEN EntryOs(entry) \o <<"/">>
         \o (IF entry.architecture = None THEN S1("None") ELSE entry.architecture)
    ELSE p

IsConcrete(d) == d.schemaVersion \in {1, 2} /\ (d.hasLayers \/ d.hasFsLayers)
\* manifest.get('manifests') is a non-empty list
HasManifests(d) == d.hasManifests /\ d.manifests # <<>>
IsPlatformKey(item) == \E i \in DOMAIN item.key : item.key[i] = "/"
platform_keys(d) == SelectSeq(d.items, IsPlatformKey)
IsPlatformMap(d) ==
    platform_keys(d) # <<>> /\ Len(platform_keys(d)) = DictLen(d)

\* ---- get_manifest as a state machine -------------------------------------
NotResolved == [status |-> "none", val |-> NullVal, line |-> 0]
Returned(v) == [status |-> "returned", val |-> v, line |-> 0]
\* an exception raised at a line of docker_registry.py, re-raised by get_manifest
Raised(line) == [status |-> "raised", val |-> NullVal, line |-> line]
Raises == Val("raises", EmptyDict)

\* what dxf.get_manifest may answer for a digest
TransportAnswers(digest) ==
    {Raises, Val("text", Registry(digest)), Val("dict", Registry(digest)),
     Val("badtext", EmptyDict), Val("textlist", EmptyDict), OtherVal}

NoOutcome ==
    [op |-> "none", status |-> "none", manifest |-> EmptyDict, schema_version |-> 0,
     layer_count |-> 0, pulled |-> <<>>, failed |-> 0, downloaded |-> <<>>,
     unreadable |-> {}, attempted |-> <<>>, applied |-> <<>>]

NoFirst == [fetched |-> <<>>, resolved |-> NotResolved]

InitResolve ==
    /\ diskInit /\ appInit /\ parseInit
    /\ rpc = "call"
    /\ raw \in RawAnswers \cup {Raises}
    /\ requested \in Platforms
    /\ manifest = NullVal
    /\ platform = requested
    /\ depth = 0
    /\ best_match = NoEntry
    /\ fetched = <<>>
    /\ resolved = NotResolved
    /\ outcome = NoOutcome
    /\ run = 1
    /\ first = NoFirst

resFrame == <<diskVars, appVars, parseVars, raw, requested, outcome, run, first>>
Fails(line) ==
    /\ rpc' = "done"
    /\ resolved' = Raised(line)
Returns(v) ==
    /\ rpc' = "check"
    /\ resolved' = Returned(v)

\* get_manifest up to the call of _resolve_manifest_for_platform
get_manifest ==
    /\ rpc = "call"
    /\ IF raw.t \in {"text", "textlist", "dict"}
       THEN /\ rpc' = "resolve"
            /\ manifest' = Loads(raw)
            /\ depth' = 1
            /\ UNCHANGED resolved
       ELSE /\ Fails(CASE raw.t = "raises" -> 225 [] raw.t = "badtext" -> 229
                      [] OTHER -> 233)
            /\ UNCHANGED <<manifest, depth>>
    /\ UNCHANGED <<platform, best_match, fetched, resFrame>>

\* the manifest is not a dictionary, or is a schema manifest already
resolve_concrete ==
    /\ rpc = "resolve"
    /\ manifest.t # "dict" \/ IsConcrete(manifest.doc)
    /\ IF manifest.t # "dict" THEN Fails(142) ELSE Returns(manifest)
    /\ UNCHANGED <<manifest, platform, depth, best_match, fetched, resFrame>>

\* entry of the list, whichever, instead of the first one that matches
resolve_list_any ==
    /\ rpc = "resolve"
    /\ manifest.t = "dict" /\ ~IsConcrete(manifest.doc)
    /\ HasManifests(manifest.doc)
    /\ best_match' \in Range(manifest.doc.manifests)
    /\ IF best_match'.digest = ""
       THEN Fails(175)
       ELSE rpc' = "fetch" /\ UNCHANGED resolved
    /\ UNCHANGED <<manifest, platform, depth, fetched, resFrame>>

\* manifest list: the choice of best_match and its digest
resolve_list ==
    /\ rpc = "resolve"
    /\ manifest.t = "dict" /\ ~IsConcrete(manifest.doc)
    /\ HasManifests(manifest.doc)
    /\ best_match' = BestMatch(manifest.doc.manifests, platform)
    /\ IF best_match'.digest = ""
       THEN Fails(175)
       ELSE rpc' = "fetch" /\ UNCHANGED resolved
    /\ UNCHANGED <<manifest, platform, depth, fetched, resFrame>>

Fetch(a) ==
    [digest |-> best_match.digest, platform |-> platform_str(best_match, platform),
     answer |-> a]
\* what the transport may answer now: in a second call, asked the same
\* question at the same point as in the first, it answers the same
Answers ==
    LET k == Len(fetched) + 1
    IN  IF /\ run = 2
           /\ k <= Len(first.fetched)
           /\ first.fetched[k].digest = best_match.digest
           /\ first.fetched[k].platform = platform_str(best_match, platform)
        THEN {first.fetched[k].answer}
        ELSE TransportAnswers(best_match.digest)
FetchFailure(a) ==
    CASE a.t = "raises" -> 124 [] a.t = "badtext" -> 130 [] OTHER -> 135

\* resolve_nested as a loop, which no limit on nested calls stops
resolve_nested_unlimited ==
    /\ rpc = "fetch"
    /\ best_match.mediaType \in ListMediaTypes
    /\ \E a \in Answers :
          /\ fetched' = IF Fetch(a) \in {fetched[i] : i \in DOMAIN fetched}
                        THEN fetched ELSE Append(fetched, Fetch(a))
          /\ IF a.t \in {"text", "textlist", "dict"}
             THEN /\ rpc' = "resolve"
                  /\ manifest' = Loads(a)
                  /\ platform' = platform_str(best_match, platform)
                  /\ UNCHANGED <<resolved, depth>>
             ELSE /\ Fails(FetchFailure(a))
                  /\ UNCHANGED <<manifest, platform, depth>>
    /\ UNCHANGED <<best_match, resFrame>>

\* best_match is itself a list: fetch it and resolve it in turn; the nested
\* call that the interpreter does not allow raises RecursionError
resolve_nested ==
    /\ rpc = "fetch"
    /\ best_match.mediaType \in ListMediaTypes
    /\ \E a \in Answers :
          /\ fetched' = Append(fetched, Fetch(a))
          /\ IF a.t \in {"text", "textlist", "dict"} /\ depth < MaxDepth
             THEN /\ rpc' = "resolve"
                  /\ manifest' = Loads(a)
                  /\ platform' = platform_str(best_match, platform)
                  /\ depth' = depth + 1
                  /\ UNCHANGED resolved
             ELSE /\ Fails(IF a.t \in {"text", "textlist", "dict"} THEN 190
                          ELSE FetchFailure(a))
                  /\ UNCHANGED <<manifest, platform, depth>>
    /\ UNCHANGED <<best_match, resFrame>>

\* any other best_match: what _get_platform_manifest returns is the result
resolve_fetch ==
    /\ rpc = "fetch"
    /\ best_match.mediaType \notin ListMediaTypes
    /\ \E a \in Answers :
          /\ fetched' = Append(fetched, Fetch(a))
          /\ IF a.t \in {"text", "textlist", "dict"}
             THEN Returns(Loads(a))
             ELSE Fails(FetchFailure(a))
    /\ UNCHANGED <<manifest, platform, depth, best_match, resFrame>>

MapLookupFirst(d, p) == platform_keys(d)[1].value
\* manifest_json of the platform map d for platform p
MapLookup(d, p) ==
    LET exact == Get(d, p)
        slashed == IF exact = NullVal THEN Get(d, Replace(p)) ELSE exact
    IN  IF slashed = NullVal THEN platform_keys(d)[1].value ELSE slashed

\* the multi-platform dictionary of DXF
resolve_map ==
    /\ rpc = "resolve"
    /\ manifest.t = "dict" /\ ~IsConcrete(manifest.doc)
    /\ ~HasManifests(manifest.doc)
    /\ IsPlatformMap(manifest.doc)
    /\ LET manifest_json == MapLookup(manifest.doc, platform)
       IN  CASE manifest_json.t \in {"text", "textlist"} -> Returns(Loads(manifest_json))
             [] manifest_json.t = "badtext" -> Fails(203)
             [] manifest_json.t = "dict" -> Returns(manifest_json)
             [] OTHER -> Fails(206)
    /\ UNCHANGED <<manifest, platform, depth, best_match, fetched, resFrame>>

\* neither a manifest, nor a list, nor a platform map
resolve_unable ==
    /\ rpc = "resolve"
    /\ manifest.t = "dict" /\ ~IsConcrete(manifest.doc)
    /\ ~HasManifests(manifest.doc)
    /\ ~IsPlatformMap(manifest.doc)
    /\ Fails(210)
    /\ UNCHANGED <<manifest, platform, depth, best_match, fetched, resFrame>>

\* get_manifest after _resolve_manifest_for_platform has returned
get_manifest_return ==
    /\ rpc = "check"
    /\ IF resolved.val.t = "dict"
       THEN rpc' = "done" /\ resolved' = [resolved EXCEPT !.status = "ok"]
       ELSE Fails(237)
    /\ UNCHANGED <<manifest, platform, depth, best_match, fetched, resFrame>>

\* get_manifest is called a second time with the same tag and platform
get_manifest_again ==
    /\ rpc = "done"
    /\ run = 1
    /\ run' = 2
    /\ first' = [fetched |-> fetched, resolved |-> resolved]
    /\ rpc' = "call"
    /\ manifest' = NullVal
    /\ platform' = requested
    /\ depth' = 0
    /\ best_match' = NoEntry
    /\ fetched' = <<>>
    /\ resolved' = NotResolved
    /\ UNCHANGED <<diskVars, appVars, parseVars, raw, requested, outcome>>

\* ---- get_image_info and download_all_layers, after get_manifest ----------
\* platform.split('/')[-1] if '/' in platform else platform
platform_arch(p) ==
    IF SlashAt(p) = 0 THEN p
    ELSE SubSeq(p, 1 + CHOOSE i \in DOMAIN p :
                          p[i] = "/" /\ \A j \in (i + 1)..Len(p) : p[j] # "/", Len(p))
\* platform.split('/')[0] if '/' in platform else 'linux'
platform_os(p) == IF SlashAt(p) = 0 THEN S1("linux") ELSE Partition(p)[1]
EntryFits(entry, p) ==
    /\ EntryArch(entry) # None
    /\ EntryArch(entry) = platform_arch(p)
    /\ EntryOs(entry) = platform_os(p)
\* the entry whose digest is fetched: the one the loop breaks on, else the first
manifest_entry(entries, p) ==
    IF \E i \in DOMAIN entries : EntryFits(entries[i], p)
    THEN entries[CHOOSE i \in DOMAIN entries :
                     /\ EntryFits(entries[i], p)
                     /\ \A j \in 1..(i - 1) : ~EntryFits(entries[j], p)]
    ELSE entries[1]
\* manifest_data if it is a dict, else json.loads(manifest_data)
Plain(a) ==
    CASE a.t = "dict" -> a
      [] a.t \in {"text", "textlist"} -> Loads(a)
      [] OTHER -> Raises
\* the values manifest may have once a Docker manifest list has been handled
Unwrapped(d, p) ==
    IF d.mediaType # DockerListMediaType \/ d.manifests = <<>>
    THEN {Val("dict", d)}
    ELSE IF manifest_entry(d.manifests, p).digest = ""
         THEN {Raises}
         ELSE {Plain(a) : a \in TransportAnswers(manifest_entry(d.manifests, p).digest)}
Failed(op) == [NoOutcome EXCEPT !.op = op, !.status = "raised"]

get_image_info ==
    /\ rpc = "done"
    /\ rpc' = "end"
    /\ IF resolved.status = "raised"
       THEN outcome' = Failed("get_image_info")
       ELSE \E m \in Unwrapped(resolved.val.doc, requested) :
               outcome' =
                   IF m.t # "dict" THEN Failed("get_image_info")
                   ELSE [op |-> "get_image_info", status |-> "ok", manifest |-> m.doc,
                         schema_version |-> m.doc.schemaVersion,
                         layer_count |-> IF m.doc.hasLayers THEN Len(m.doc.layers)
                                         ELSE IF m.doc.hasFsLayers
                                              THEN Len(m.doc.fsLayers)
                                              ELSE 0,
                         pulled |-> <<>>, failed |-> 0, downloaded |-> <<>>,
                         unreadable |-> {}, attempted |-> <<>>, applied |-> <<>>]
    /\ UNCHANGED <<diskVars, appVars, parseVars, raw, requested, manifest, platform, depth,
                   best_match, fetched, resolved, run, first>>

\* layers, of a schema 2 manifest or of a schema 1 manifest
Layers(d) ==
    IF d.schemaVersion = 2
    THEN IF d.hasLayers THEN d.layers
         ELSE IF d.hasFsLayers THEN d.fsLayers ELSE <<>>
    ELSE IF d.schemaVersion = 1 /\ d.hasFsLayers THEN d.fsLayers ELSE <<>>

\* the layer list is built from fsLayers: [{'digest': layer['blobSum']} ...]
FromFsLayers(d) == Layers(d) # <<>> /\ ~(d.schemaVersion = 2 /\ d.hasLayers)

\* f"{i:03d}"
Digit(n) == CASE n = 0 -> "0" [] n = 1 -> "1" [] n = 2 -> "2" [] n = 3 -> "3"
              [] n = 4 -> "4" [] n = 5 -> "5" [] n = 6 -> "6" [] n = 7 -> "7"
              [] n = 8 -> "8" [] n = 9 -> "9"
Pad3(i) == <<Digit((i \div 100) % 10), Digit((i \div 10) % 10), Digit(i % 10)>>
\* digest.replace(':', '_')
ReplaceColon(str) == [k \in DOMAIN str |-> IF str[k] = ":" THEN "_" ELSE str[k]]
\* an enumerate that counts from 1
LayerFilenameFromOne(i, digest) ==
    <<"layer_">> \o Pad3(i + 1) \o <<"_">> \o ReplaceColon(digest) \o <<".tar">>
\* f"layer_{i:03d}_{digest.replace(':', '_')}.tar"
LayerFilename(i, digest) ==
    <<"layer_">> \o Pad3(i) \o <<"_">> \o ReplaceColon(digest) \o <<".tar">>
\* os.path.join(output_dir, layer_filename)
LayerPath(i, digest) == [dir |-> "output_dir", name |-> LayerFilename(i, digest)]

\* the first descriptor of the list that has no digest, Len + 1 when all have
Stop(layers) ==
    IF \E k \in DOMAIN layers : layers[k] = None
    THEN CHOOSE k \in DOMAIN layers :
             layers[k] = None /\ \A j \in 1..(k - 1) : layers[j] # None
    ELSE Len(layers) + 1

\* a loop that logs a failed download and goes on to the next layer
PulledOn(layers, fail) == SubSeq(layers, 1, Stop(layers) - 1)
\* the digests given to download_layer when the download of layer 'fail' raises
\* (fail = 0: none does): the loop is left at the first raise
Pulled(layers, fail) ==
    IF fail # 0 THEN SubSeq(layers, 1, fail) ELSE SubSeq(layers, 1, Stop(layers) - 1)

download_all_layers ==
    /\ rpc = "done"
    /\ rpc' = "end"
    /\ IF resolved.status = "raised"
       THEN outcome' = Failed("download_all_layers")
       ELSE \E m \in Unwrapped(resolved.val.doc, requested) :
               IF m.t # "dict" \/ Layers(m.doc) = <<>>
               THEN outcome' = Failed("download_all_layers")
               ELSE LET layers == Layers(m.doc)
                        raised == [Failed("download_all_layers") EXCEPT !.manifest = m.doc]
                    IN  IF FromFsLayers(m.doc) /\ Stop(layers) <= Len(layers)
                        THEN \* layer['blobSum'] raises in the list comprehension
                             outcome' = raised
                        ELSE \E fail \in 0..(Stop(layers) - 1) :
                                outcome' =
                                    IF fail # 0 \/ Stop(layers) <= Len(layers)
                                    THEN [raised EXCEPT !.pulled = Pulled(layers, fail),
                                                        !.failed = fail]
                                    ELSE [op |-> "download_all_layers", status |-> "ok",
                                          manifest |-> m.doc,
                                          schema_version |-> m.doc.schemaVersion,
                                          layer_count |-> Len(layers),
                                          pulled |-> Pulled(layers, fail),
                                          failed |-> 0,
                                          downloaded |->
                                              [k \in DOMAIN layers |->
                                                  LayerPath(k - 1, layers[k])],
                                          unreadable |-> {}, attempted |-> <<>>,
                                          applied |-> <<>>]
    /\ UNCHANGED <<diskVars, appVars, parseVars, raw, requested, manifest, platform, depth,
                   best_match, fetched, resolved, run, first>>

RECURSIVE Without(_, _, _)
\* the members of a list, from position k on, whose position is not in bad
Without(paths, bad, k) ==
    IF k > Len(paths) THEN <<>>
    ELSE (IF k \in bad THEN <<>> ELSE <<paths[k]>>) \o Without(paths, bad, k + 1)
\* the first position of a list that is in bad, Len + 1 when none is
FirstOf(paths, bad) ==
    IF bad \cap DOMAIN paths = {} THEN Len(paths) + 1
    ELSE CHOOSE k \in bad \cap DOMAIN paths : \A j \in bad \cap DOMAIN paths : k <= j

\* a loop whose except clause ends with break
OpenedUntil(paths, bad) ==
    IF FirstOf(paths, bad) > Len(paths) THEN paths
    ELSE SubSeq(paths, 1, FirstOf(paths, bad))
\* the layers given to tarfile.open: "except Exception ... continue"
Opened(paths, bad) == paths

\* extract_layers_to_rootfs(layer_paths, rootfs_dir) on the paths that
\* download_all_layers returned: os.makedirs, then every layer in a try
extract_layers_to_rootfs ==
    /\ rpc = "end"
    /\ outcome.op = "download_all_layers" /\ outcome.status = "ok"
    /\ \E made \in BOOLEAN, bad \in SUBSET DOMAIN outcome.downloaded :
          outcome' =
              IF ~made
              THEN [outcome EXCEPT !.op = "extract_layers_to_rootfs", !.status = "raised"]
              ELSE [outcome EXCEPT !.op = "extract_layers_to_rootfs",
                                   !.unreadable = bad,
                                   !.attempted = Opened(outcome.downloaded, bad),
                                   !.applied =
                                       Without(Opened(outcome.downloaded, bad), bad, 1)]
    /\ UNCHANGED <<diskVars, appVars, parseVars, rpc, raw, requested, manifest, platform, depth,
                   best_match, fetched, resolved, run, first>>

NextResolve ==
    \/ get_manifest
    \/ resolve_concrete
    \/ resolve_list
    \/ resolve_nested
    \/ resolve_fetch
    \/ resolve_map
    \/ resolve_unable
    \/ get_manifest_return
    \/ get_manifest_again
    \/ get_image_info
    \/ download_all_layers
    \/ extract_layers_to_rootfs

SpecResolve == InitResolve /\ [][NextResolve]_vars

\* the steps of a call of get_manifest: a call that has started goes on
StepResolve ==
    \/ get_manifest \/ resolve_concrete \/ resolve_list \/ resolve_nested
    \/ resolve_fetch \/ resolve_map \/ resolve_unable \/ get_manifest_return
FairSpecResolve == InitResolve /\ [][NextResolve]_vars /\ WF_vars(StepResolve)

(***************************************************************************)
(* Properties of manifest resolution                                       *)
(***************************************************************************)
\* a requested platform of the form os/arch or os/arch/variant
WellFormed(p) ==
    /\ Len(p) \in {3, 5}
    /\ \A i \in DOMAIN p : (p[i] = "/") <=> (i \in {2, 4})
RequestVariant(p) == IF Len(p) = 5 THEN S1(p[5]) ELSE None
SameOsArch(entry, p) ==
    entry.hasPlatform /\ EntryOs(entry) = S1(p[1]) /\ entry.architecture = S1(p[3])
SameOsArchVariant(entry, p) ==
    SameOsArch(entry, p) /\ entry.variant = RequestVariant(p)
\* best_match has just been chosen among the entries of manifest for platform
Selected ==
    /\ rpc = "fetch"
    /\ WellFormed(platform)
Listed == Range(manifest.doc.manifests)
FromMap ==
    /\ rpc \in {"check", "done", "end"}
    /\ manifest.t = "dict" /\ ~IsConcrete(manifest.doc)
    /\ ~HasManifests(manifest.doc)
    /\ IsPlatformMap(manifest.doc)

\* C7: whenever get_manifest returns, what it returns is a concrete manifest:
\* it has no 'manifests' array and is not a platform-keyed map.
C7_ConcreteResult ==
    (rpc = "done" /\ resolved.status = "ok") =>
        /\ ~resolved.val.doc.hasManifests
        /\ ~IsPlatformMap(resolved.val.doc)

\* C8: when the requested platform has a variant and the list holds both an
\* entry equal to it in os, architecture and variant and an entry equal to it
\* in os and architecture only, the entry selected is one equal in all three.
C8_ExactBeforeArch ==
    ( /\ Selected
      /\ RequestVariant(platform) # None
      /\ \E entry \in Listed : SameOsArchVariant(entry, platform)
      /\ \E entry \in Listed :
            SameOsArch(entry, platform) /\ ~SameOsArchVariant(entry, platform) )
    => SameOsArchVariant(best_match, platform)

\* C9: when no entry of the list equals the requested platform in os,
\* architecture and variant but some entry equals it in os and architecture,
\* the entry selected has the os and architecture of the request.
C9_ArchBeforeFirst ==
    ( /\ Selected
      /\ ~\E entry \in Listed : SameOsArchVariant(entry, platform)
      /\ \E entry \in Listed : SameOsArch(entry, platform) )
    => SameOsArch(best_match, platform)

\* C10: when a platform map holds the requested platform as a key whose value
\* is JSON text or a dictionary, resolution yields the dictionary that this
\* value encodes or is, whatever the other keys and their order.
C10_MapSelectsRequested ==
    ( /\ FromMap
      /\ Get(manifest.doc, platform).t \in {"text", "dict"} )
    => /\ resolved.status \in {"returned", "ok"}
       /\ resolved.val = Val("dict", Get(manifest.doc, platform).doc)
C10_Witness ==
    /\ FromMap /\ rpc = "done" /\ resolved.status = "ok"
    /\ Get(manifest.doc, platform).t = "text"
    /\ IsConcrete(resolved.val.doc)
    /\ Len(manifest.doc.items) >= 2
    /\ manifest.doc.items[1].key # platform
    /\ manifest.doc.items[1].value.t \in {"text", "dict"}
    /\ manifest.doc.items[1].value.doc # resolved.val.doc

\* the keys of the platform map being resolved
HasKey(d, key) == \E i \in DOMAIN d.items : d.items[i].key = key
\* key starts with p + "/"
HasPrefix(key, p) ==
    Len(key) > Len(p) + 1 /\ SubSeq(key, 1, Len(p) + 1) = p \o <<"/">>
Decodable(v) == v.t \in {"text", "dict"}
Decoded(v) == Val("dict", v.doc)

\* C11: when a platform map has no key equal to the requested platform but
\* has keys that start with the requested platform followed by "/", the
\* result is the manifest of one of those keys.
C11_MapPrefixMatch ==
    ( /\ FromMap
      /\ ~HasKey(manifest.doc, platform)
      /\ \E i \in DOMAIN manifest.doc.items :
            HasPrefix(manifest.doc.items[i].key, platform)
      /\ \A i \in DOMAIN manifest.doc.items :
            HasPrefix(manifest.doc.items[i].key, platform)
                => Decodable(manifest.doc.items[i].value) )
    => /\ resolved.status \in {"returned", "ok"}
       /\ \E i \in DOMAIN manifest.doc.items :
             /\ HasPrefix(manifest.doc.items[i].key, platform)
             /\ resolved.val = Decoded(manifest.doc.items[i].value)

LinuxAmd64 == S2("linux", "amd64")
\* no key of the map equals p or starts with p + "/"
NoKeyFor(d, p) ==
    /\ ~HasKey(d, p)
    /\ \A i \in DOMAIN d.items : ~HasPrefix(d.items[i].key, p)

\* C12: at a list level where no entry has the os and architecture of the
\* requested platform and a linux/amd64 entry is listed, the entry selected is
\* a linux/amd64 entry; at a map level where no key equals the requested
\* platform or starts with it and a linux/amd64 key is present, the result is
\* the manifest of the linux/amd64 key.
C12_Amd64Default ==
    /\ ( /\ Selected
         /\ ~\E entry \in Listed : SameOsArch(entry, platform)
         /\ \E entry \in Listed : SameOsArch(entry, LinuxAmd64) )
       => SameOsArch(best_match, LinuxAmd64)
    /\ ( /\ FromMap
         /\ WellFormed(platform)
         /\ NoKeyFor(manifest.doc, platform)
         /\ Decodable(Get(manifest.doc, LinuxAmd64)) )
       => /\ resolved.status \in {"returned", "ok"}
          /\ resolved.val = Decoded(Get(manifest.doc, LinuxAmd64))

\* no entry of the list matches platform at any tier
NoEntryFor(d, p) ==
    /\ WellFormed(p)
    /\ \A i \in DOMAIN d.manifests :
          ~SameOsArch(d.manifests[i], p) /\ ~SameOsArch(d.manifests[i], LinuxAmd64)

\* C13: when no entry of a non-empty list matches the requested platform, the
\* first entry is selected, its digest is the one fetched, and the manifest
\* the transport delivers for it is the result; when no key of a platform map
\* matches, the result is the manifest of the first key.  Resolution raises
\* only if the first entry has no digest, the transport fails or the first
\* key's value is no manifest.
C13_FirstEntryFallback ==
    /\ ( /\ rpc \in {"fetch", "check", "done", "end"}
         /\ manifest.t = "dict" /\ ~IsConcrete(manifest.doc)
         /\ HasManifests(manifest.doc)
         /\ NoEntryFor(manifest.doc, platform) )
       => /\ best_match = manifest.doc.manifests[1]
          /\ (rpc # "fetch" /\ best_match.digest # "") =>
                /\ fetched # <<>>
                /\ fetched[Len(fetched)].digest = best_match.digest
                /\ resolved.status = "raised" => resolved.line \in {124, 130, 135, 190, 237}
                /\ resolved.status \in {"returned", "ok"} =>
                      resolved.val \in
                          {Loads(a) : a \in TransportAnswers(best_match.digest)}
    /\ ( /\ FromMap
         /\ WellFormed(platform)
         /\ NoKeyFor(manifest.doc, platform)
         /\ ~HasKey(manifest.doc, LinuxAmd64)
         /\ Decodable(manifest.doc.items[1].value) )
       => /\ resolved.status \in {"returned", "ok"}
          /\ resolved.val = Decoded(manifest.doc.items[1].value)
C13_Witness ==
    /\ rpc = "done" /\ resolved.status = "ok"
    /\ manifest.t = "dict" /\ HasManifests(manifest.doc)
    /\ Len(manifest.doc.manifests) >= 2
    /\ NoEntryFor(manifest.doc, platform)
    /\ best_match = manifest.doc.manifests[1]
    /\ best_match # manifest.doc.manifests[Len(manifest.doc.manifests)]
    /\ resolved.val.doc = Registry(best_match.digest)
    /\ IsConcrete(resolved.val.doc)

\* a concrete manifest from which no layer can be extracted
ZeroLayer(d) ==
    /\ d.schemaVersion \in {1, 2}
    /\ ~d.hasManifests /\ ~IsPlatformMap(d)
    /\ Layers(d) = <<>>

\* C14: get_manifest never returns a concrete manifest without layers, and
\* get_image_info and download_all_layers never succeed on one.
C14_NoZeroLayerSuccess ==
    /\ (rpc \in {"done", "end"} /\ resolved.status = "ok") => ~ZeroLayer(resolved.val.doc)
    /\ (rpc = "end" /\ outcome.status = "ok") => ~ZeroLayer(outcome.manifest)

ReleaseCmds == {"kpartx -d", "losetup -d", "rmtree"}
Count(c, t) == Cardinality({i \in DOMAIN cmds : cmds[i].cmd = c /\ cmds[i].target = t})
Ledger == Range(loop_devices) \cup {DirPath(temp_dirs[i]) : i \in DOMAIN temp_dirs}
InCleanup == pc \in {"finally", "cleanup_kpartx", "cleanup_losetup", "cleanup_rmtree"}
InInstall ==
    pc \in {"bind", "detect", "classify", "install_alpine", "install_debian", "install_generic",
            "unbind"}
\* the bind mounts that install_kernel_and_bootloader tried to unmount, in order
RECURSIVE Unbound(_)
Unbound(seq) ==
    IF seq = <<>> THEN <<>>
    ELSE IF seq[1].cmd = "umount" /\ seq[1].target.base \in Range(UnbindOrder)
         THEN <<seq[1].target>> \o Unbound(Tail(seq))
         ELSE Unbound(Tail(seq))

\* C16: in the first cleanup every directory is removed before any loop
\* device is detached (the loop device is acquired before the mount
\* directory); and when that cleanup has ended, the resources it has tried to
\* release are exactly the registered ones.
C16_ReverseOrder ==
    cleanups <= 1 =>
        /\ \A i, j \in DOMAIN cmds :
              (cmds[i].cmd = "rmtree" /\ cmds[j].cmd \in {"kpartx -d", "losetup -d"})
                  => i < j
        /\ Ended => {cmds[i].target : i \in {k \in DOMAIN cmds :
                                              cmds[k].cmd \in ReleaseCmds}} = Ledger

\* C17: no loop device is unmapped or detached and no directory is removed
\* again after a release command of the same kind has succeeded on it.
C17_ReleasedOnce ==
    \A i, j \in DOMAIN cmds :
        (i < j /\ cmds[i].cmd \in ReleaseCmds /\ cmds[i].ok /\ cmds[j].cmd = cmds[i].cmd)
            => cmds[j].target # cmds[i].target

\* C18: cleanup always runs to its end, whatever the outcome of each release
\* command; when it has ended, each call of it has tried kpartx -d and
\* losetup -d on every registered loop device and rmtree on every registered
\* directory; and it leaves the outcome and the error of the conversion as
\* they were.
C18_CleanupNeverRaises ==
    /\ [](Ended =>
            /\ \A ld \in Range(loop_devices) :
                  Count("kpartx -d", ld) = cleanups /\ Count("losetup -d", ld) = cleanups
            /\ \A i \in DOMAIN temp_dirs : Count("rmtree", DirPath(temp_dirs[i])) = cleanups)
    /\ [][(InCleanup \/ Ended) => (error' = error /\ result' = result)]_vars
    /\ (InCleanup ~> Ended)
C18_Witness ==
    /\ Ended /\ cleanups = 2 /\ result = "raised"
    /\ loop_devices # <<>> /\ temp_dirs # <<>>
    /\ \E i \in DOMAIN cmds : cmds[i].cmd = "losetup -d" /\ ~cmds[i].ok
    /\ \E i \in DOMAIN cmds : cmds[i].cmd = "rmtree" /\ ~cmds[i].ok

\* C19: outside install_kernel_and_bootloader no bind mount made by it is
\* left mounted, unless its umount was run and did not succeed.
C19_BindMountsScoped ==
    ~InInstall => \A fs \in bindMounted : Tried("umount", GuestPath(fs))

\* C20: the umounts of the bind mounts are run in the order /dev, /sys, /proc;
\* and once the three bind mounts have succeeded, all three umounts have been
\* run when install_kernel_and_bootloader has returned or raised.
C20_UnbindAll ==
    /\ \E n \in 0..Len(UnbindOrder) :
          Unbound(cmds) = [i \in 1..n |-> GuestPath(UnbindOrder[i])]
    /\ ( /\ "install_kernel_and_bootloader" \in Range(steps)
         /\ ~InInstall
         /\ error.kind # "bind" )
       => Len(Unbound(cmds)) = Len(UnbindOrder)
C20_Witness ==
    /\ Ended /\ result = "raised"
    /\ error.kind \in {"mkdir", "cp_grub_cfg"}
    /\ Len(Unbound(cmds)) = Len(UnbindOrder)
    /\ \E i \in DOMAIN cmds :
          cmds[i].cmd = "umount" /\ cmds[i].target = GuestPath("dev") /\ ~cmds[i].ok
    /\ \E i \in DOMAIN cmds :
          cmds[i].cmd = "umount" /\ cmds[i].target = GuestPath("proc") /\ cmds[i].ok

(***************************************************************************)
(* Properties of the installation sequences                                *)
(***************************************************************************)
\* the chrooted commands run so far, in order
RECURSIVE Chrooted(_)
Chrooted(seq) ==
    IF seq = <<>> THEN <<>>
    ELSE IF seq[1].cmd = "chroot"
         THEN <<seq[1].target.base>> \o Chrooted(Tail(seq))
         ELSE Chrooted(Tail(seq))
SequenceOf(d) == IF d = "alpine" THEN AlpineCommands ELSE DebianCommands

\* C21: for an Alpine or Debian guest the chrooted commands are run in the
\* order of the sequence, whatever their exit status; when the sequence has
\* been left all four have been run; and the conversion returns.
C21_ChrootBestEffort ==
    distro \in {"alpine", "debian"} =>
        /\ \E n \in 0..Len(SequenceOf(distro)) :
              Chrooted(cmds) = SubSeq(SequenceOf(distro), 1, n)
        /\ pc \notin {"install_alpine", "install_debian"}
              => Chrooted(cmds) = SequenceOf(distro)
        /\ result # "raised"
        /\ Ended => result = "returned"
C21_Witness ==
    /\ Ended /\ result = "returned" /\ distro = "debian"
    /\ Chrooted(cmds) = DebianCommands
    /\ \A i \in DOMAIN cmds : cmds[i].cmd = "chroot" => ~cmds[i].ok

(***************************************************************************)
(* Properties of convert_docker_image                                      *)
(***************************************************************************)
AllStages == <<"parse">> \o Stages
Returning(t) == tpc[t] = "release"
IsPrefix(seq, full) == Len(seq) <= Len(full) /\ seq = SubSeq(full, 1, Len(seq))

\* C22: every call of convert_docker_image ends by a return of (status, path);
\* the stages are entered in order; when a stage fails the status names it,
\* the path is None and no later stage has been entered; the path is not None
\* only with the success status, after all stages and the check that the
\* output file exists.
C22_ErrorsReturned ==
    \A t \in Threads :
        /\ IsPrefix(tstages[t], AllStages)
        /\ Inside(t) /\ ~Returning(t) => tresult[t] = NoResult
        /\ Returning(t) =>
              /\ tresult[t] # NoResult
              /\ tresult[t].status \in Range(Stages) =>
                    /\ tresult[t].path = "None"
                    /\ tstages[t] # <<>>
                    /\ tstages[t][Len(tstages[t])] = tresult[t].status
              /\ tresult[t].path # "None" =>
                    /\ tresult[t].status = "success"
                    /\ tresult[t].path = "output_path"
                    /\ tstages[t] = AllStages
              /\ tresult[t].status # "success" => tresult[t].path = "None"
C22_Witness ==
    \E t \in Threads :
        /\ Returning(t)
        /\ tresult[t] = [status |-> "extract", path |-> "None"]
        /\ tstages[t] = <<"parse", "connect", "info", "download", "extract">>

\* C23: when convert_docker_image returns, no temporary directory made
\* during the call exists any more.
C23_TempDirsRemoved ==
    \A t \in Threads : Returning(t) => tdirs[t] = {}

(***************************************************************************)
(* DockerRegistryClient.parse_image_url.  A string is the sequence of its   *)
(* characters; a name character stands for any character but "/" and ":".   *)
(***************************************************************************)
UrlChars == {"a", "b", "/", ":"}
RECURSIVE Strings(_, _)
\* the strings of at most n characters
Strings(chars, n) ==
    IF n = 0 THEN {<<>>}
    ELSE {<<>>} \cup {<<c>> \o rest : c \in chars, rest \in Strings(chars, n - 1)}
NotParsed == [registry_url |-> <<"?">>, repository |-> <<"?">>, tag |-> <<"?">>]

\* the index of the first "://" of a string, 0 when it has none
SchemeAt(str) ==
    LET At(i) == i + 2 <= Len(str) /\ str[i] = ":" /\ str[i + 1] = "/" /\ str[i + 2] = "/"
    IN  IF \E i \in DOMAIN str : At(i)
        THEN CHOOSE i \in DOMAIN str : At(i) /\ \A j \in 1..(i - 1) : ~At(j)
        ELSE 0
\* the index of the last ":" of a string, 0 when it has none
LastColon(str) ==
    IF \E i \in DOMAIN str : str[i] = ":"
    THEN CHOOSE i \in DOMAIN str :
             str[i] = ":" /\ \A j \in (i + 1)..Len(str) : str[j] # ":"
    ELSE 0
RECURSIVE Split(_)
\* str.split('/')
Split(str) ==
    IF SlashAt(str) = 0 THEN <<str>>
    ELSE <<SubSeq(str, 1, SlashAt(str) - 1)>>
         \o Split(SubSeq(str, SlashAt(str) + 1, Len(str)))
RECURSIVE Join(_)
\* '/'.join(parts)
Join(parts) ==
    IF Len(parts) = 0 THEN <<>>
    ELSE IF Len(parts) = 1 THEN parts[1]
    ELSE parts[1] \o <<"/">> \o Join(Tail(parts))

\* parse_image_url that keeps the host in the repository of a full URL
parse_image_url_whole(url) ==
    LET rest == IF SchemeAt(url) # 0
                THEN SubSeq(url, SchemeAt(url) + 3, Len(url))
                ELSE url
        parts == Split(rest)
        registry_url == IF Len(parts) <= 2 THEN <<"registry-1.docker.io">> ELSE parts[1]
        repository == IF Len(parts) = 1 THEN <<"library", "/">> \o parts[1] ELSE rest
        k == LastColon(repository)
    IN  [registry_url |-> registry_url,
         repository |-> IF k # 0 THEN SubSeq(repository, 1, k - 1) ELSE repository,
         tag |-> IF k # 0 THEN SubSeq(repository, k + 1, Len(repository))
                 ELSE <<"latest">>]

\* parse_image_url(image_url): the protocol is cut off, the rest is split at
\* "/", the number of parts decides registry and repository, and the tag is
\* what follows the last ":" of the repository
parse_image_url(url) ==
    LET rest == IF SchemeAt(url) # 0
                THEN SubSeq(url, SchemeAt(url) + 3, Len(url))
                ELSE url
        parts == Split(rest)
        registry_url == IF Len(parts) <= 2 THEN <<"registry-1.docker.io">> ELSE parts[1]
        repository == IF Len(parts) = 1 THEN <<"library", "/">> \o parts[1]
                      ELSE IF Len(parts) = 2 THEN rest
                      ELSE Join(Tail(parts))
        k == LastColon(repository)
    IN  [registry_url |-> registry_url,
         repository |-> IF k # 0 THEN SubSeq(repository, 1, k - 1) ELSE repository,
         tag |-> IF k # 0 THEN SubSeq(repository, k + 1, Len(repository))
                 ELSE <<"latest">>]

InitParse ==
    /\ diskInit /\ appInit /\ resInit
    /\ image_url \in Strings(UrlChars, MaxUrlLen)
    /\ parsed = NotParsed

\* a call of the static method
ParseCall ==
    /\ parsed = NotParsed
    /\ parsed' = parse_image_url(image_url)
    /\ UNCHANGED <<diskVars, appVars, resVars, image_url>>

NextParse == ParseCall
SpecParse == InitParse /\ [][NextParse]_vars

\* a string without "/" and ":"
IsName(str) == \A i \in DOMAIN str : str[i] \notin {"/", ":"}
\* a registry host, with or without a port
IsHost(str) ==
    /\ str # <<>> /\ str[Len(str)] # ":"
    /\ \A i \in DOMAIN str : str[i] # "/"
Library(name) == <<"library", "/">> \o name

\* C30: parse_image_url gives, for a name without "/" and ":", the registry
\* registry-1.docker.io, the repository "library/" + name and the tag
\* "latest"; for name:tag, the repository "library/" + name and the tag tag;
\* for host/ns/name:tag, the registry host, the repository ns/name and the
\* tag tag.
C30_ParseImageUrl ==
    parsed # NotParsed =>
        /\ IsName(image_url) =>
              parsed = [registry_url |-> <<"registry-1.docker.io">>,
                        repository |-> Library(image_url), tag |-> <<"latest">>]
        /\ \A k \in DOMAIN image_url :
              LET name == SubSeq(image_url, 1, k - 1)
                  tag == SubSeq(image_url, k + 1, Len(image_url))
              IN  (image_url[k] = ":" /\ IsName(name) /\ IsName(tag)) =>
                      /\ parsed.repository = Library(name)
                      /\ parsed.tag = tag
        /\ \A i, j, k \in DOMAIN image_url :
              LET host == SubSeq(image_url, 1, i - 1)
                  ns == SubSeq(image_url, i + 1, j - 1)
                  name == SubSeq(image_url, j + 1, k - 1)
                  tag == SubSeq(image_url, k + 1, Len(image_url))
              IN  ( /\ i < j /\ j < k
                    /\ image_url[i] = "/" /\ image_url[j] = "/" /\ image_url[k] = ":"
                    /\ IsHost(host) /\ IsName(ns) /\ IsName(name) /\ IsName(tag)
                    /\ ns # <<>> /\ name # <<>> ) =>
                      /\ parsed.registry_url = host
                      /\ parsed.repository = ns \o <<"/">> \o name
                      /\ parsed.tag = tag
C30_Witness ==
    /\ image_url = <<"a", "/", "b", "/", "a", ":", "b">>
    /\ parsed = [registry_url |-> <<"a">>, repository |-> <<"b", "/", "a">>,
                 tag |-> <<"b">>]

\* ---- the node-visibility wait ----

KpartxRuns == Cardinality({i \in DOMAIN cmds : cmds[i].cmd = "kpartx -a"})
\* the poll in progress has looked at both paths and found neither
SeenAbsent ==
    /\ Obs(ExpectedPath(loop_device, 1), FALSE) \in observed
    /\ Obs(MapperPath(loop_device, 1), FALSE) \in observed
    /\ \A o \in observed : ~o.seen

\* C24: during one wait for the partition node, kpartx -a runs at most once,
\* and only in a poll that found the node at neither path and measured an
\* elapsed time of at least 10 seconds; when the checks before the loop see
\* the node, kpartx -a has not run.
C24_KpartxOnce ==
    [][/\ KpartxRuns' # KpartxRuns =>
             /\ pc = "wait_act"
             /\ SeenAbsent
             /\ elapsed' >= KpartxGrace
             /\ KpartxRuns = 0
             /\ KpartxRuns' = 1
       /\ (pc = "format_partition" /\ pc' = "mkfs") => KpartxRuns' = 0
       /\ (InWait /\ elapsed < KpartxGrace /\ pc' = "mkfs") => KpartxRuns' = 0]_vars
C24_Witness ==
    /\ pc = "mkfs"
    /\ KpartxRuns = 1
    /\ partition_device = MapperPath(loop_device, 1)

\* C25: the re-read of the partition table (partprobe, losetup -c, blockdev,
\* udevadm settle) runs only in a poll that found the node at neither path,
\* and only when at least 3 seconds of elapsed time separate it from the
\* re-read before it, the first from the start of the wait; a poll that comes
\* sooner runs none.
C25_RetriggerPeriodic ==
    [][(InWait /\ InWait' /\ last_trigger' # last_trigger) =>
           /\ pc = "wait_act"
           /\ SeenAbsent
           /\ last_trigger' = elapsed'
           /\ elapsed' - last_trigger >= RetriggerPeriod]_vars
C25_Witness ==
    /\ pc = "wait_timeout"
    /\ last_trigger >= 2 * RetriggerPeriod
    /\ elapsed > last_trigger

\* C26: a poll that goes on has looked at the primary and at the mapper path;
\* the path the wait returns is one that a check of that poll saw to exist,
\* it is the primary path whenever the poll saw the primary path, and
\* mkfs.ext4 is run on that path only.
C26_ReturnedPathSeen ==
    /\ pc \in {"wait_lsblk", "wait_act", "wait_timeout"} => SeenAbsent
    /\ pc = "mkfs" =>
          /\ Obs(partition_device, TRUE) \in observed
          /\ Exists(partition_device)
          /\ Obs(ExpectedPath(loop_device, 1), TRUE) \in observed =>
                 partition_device = ExpectedPath(loop_device, 1)
          /\ partition_device # ExpectedPath(loop_device, 1) =>
                 Obs(ExpectedPath(loop_device, 1), FALSE) \in observed
    /\ \A i \in DOMAIN cmds :
          cmds[i].cmd = "mkfs.ext4" =>
             /\ cmds[i].target = partition_device
             /\ partition_device \in {ExpectedPath(loop_device, 1),
                                       MapperPath(loop_device, 1)}
C26_Witness ==
    /\ pc = "mkfs"
    /\ partition_device = MapperPath(loop_device, 1)
    /\ Exists(ExpectedPath(loop_device, 1))
    /\ elapsed = 0 /\ KpartxRuns = 1

\* ---- layers ----

\* the ordinal and the digest a layer file name is made of
DigitValue(c) == CHOOSE n \in 0..9 : Digit(n) = c
NameOrdinal(name) ==
    100 * DigitValue(name[2]) + 10 * DigitValue(name[3]) + DigitValue(name[4])
NameDigest(name) == SubSeq(name, 6, Len(name) - 1)
Downloading == rpc = "end" /\ outcome.op = "download_all_layers"

\* (outcome.failed is the ordinal, from 1, of the download that raised)
\* C27: download_all_layers asks for the blobs in the order of the layer list
\* of the manifest it resolved, and for none after a download that failed;
\* when it returns, it returns one path per descriptor, and the k-th path
\* (counted from 0) is named "layer_", k in three digits, "_", the k-th digest
\* with "_" for ":", ".tar".
C27_LayersInOrder ==
    (Downloading /\ outcome.manifest # EmptyDict) =>
        LET layers == Layers(outcome.manifest)
        IN  /\ Len(outcome.pulled) <= Len(layers)
            /\ \A k \in DOMAIN outcome.pulled : outcome.pulled[k] = layers[k]
            /\ outcome.status = "raised" => outcome.downloaded = <<>>
            /\ outcome.failed # 0 =>
                  /\ outcome.status = "raised"
                  /\ Len(outcome.pulled) = outcome.failed
            /\ outcome.status = "ok" =>
                  /\ outcome.pulled = layers
                  /\ Len(outcome.downloaded) = Len(layers)
                  /\ \A k \in DOMAIN layers :
                        LET name == outcome.downloaded[k].name
                        IN  /\ outcome.downloaded[k].dir = "output_dir"
                            /\ name[1] = "layer_" /\ name[5] = "_"
                            /\ name[Len(name)] = ".tar"
                            /\ NameOrdinal(name) = k - 1
                            /\ NameDigest(name) = <<layers[k][1], "_", layers[k][3]>>
C27_Witness ==
    /\ Downloading /\ outcome.status = "ok"
    /\ Len(outcome.downloaded) = MaxLayers
    /\ outcome.manifest.hasFsLayers
    /\ outcome.downloaded[1].name # outcome.downloaded[3].name
    /\ outcome.manifest.fsLayers[1] = outcome.manifest.fsLayers[3]

Extracting == rpc = "end" /\ outcome.op = "extract_layers_to_rootfs"

\* C28: extract_layers_to_rootfs opens every layer of its list, in list
\* order, whichever of them fail to extract; the layers applied are the ones
\* that did not fail, in list order; and when it raises, it has opened none.
C28_ExtractionSkipsFailures ==
    Extracting =>
        /\ outcome.status = "ok" =>
              /\ outcome.attempted = outcome.downloaded
              /\ Len(outcome.applied) =
                     Len(outcome.downloaded) - Cardinality(outcome.unreadable)
              /\ \A k \in DOMAIN outcome.downloaded :
                     k \notin outcome.unreadable =>
                        \E j \in DOMAIN outcome.applied :
                           outcome.applied[j] = outcome.downloaded[k]
        /\ outcome.status = "raised" =>
              outcome.attempted = <<>> /\ outcome.unreadable = {}
        /\ outcome.unreadable # {} => outcome.status = "ok"
C28_Witness ==
    /\ Extracting /\ outcome.status = "ok"
    /\ outcome.unreadable = {1, 2}
    /\ Len(outcome.attempted) = MaxLayers
    /\ Len(outcome.applied) = 1

\* ---- the backing file ----

\* C29: once create_disk_image has returned, the file at output_path is
\* image_size_mb * 1024 * 1024 bytes long (1024 * 1024 * 1024 for 1024),
\* whatever was there before, and in every later state of the conversion,
\* teardown included, it still is.
C29_ExactSize ==
    "create_disk_image" \in completed =>
        /\ image_bytes = image_size_mb * 1024 * 1024
        /\ image_size_mb = 1024 => image_bytes = 1073741824
C29_Witness ==
    /\ Ended /\ result = "returned"
    /\ image_size_mb = 1024
    /\ image_bytes = 1073741824

\* ---- the entry selected from a list ----

\* the os (linux when it names none) and the architecture of an entry
OwnPlatform(entry) ==
    (IF entry.os = None THEN <<"linux">> ELSE entry.os) \o <<"/">> \o entry.architecture
LastFetch == fetched[Len(fetched)]

\* C31: when an entry of a manifest list has been selected, one manifest is
\* asked of the transport: the one under the entry's digest, for the
\* platform os/architecture of the entry; when the entry's media type is a
\* list or index type, what was fetched is resolved in turn, for that
\* platform; otherwise what was fetched is what the resolution returns.
C31_SelectedEntryFetched ==
    [][(rpc = "fetch" /\ rpc' # "fetch") =>
          /\ Len(fetched') = Len(fetched) + 1
          /\ LastFetch'.digest = best_match.digest
          /\ (best_match.hasPlatform /\ best_match.architecture # None) =>
                 LastFetch'.platform = OwnPlatform(best_match)
          /\ IF best_match.mediaType \in {DockerListMediaType, OciIndexMediaType}
             THEN /\ resolved'.status # "returned"
                  /\ rpc' = "resolve" =>
                        /\ manifest'.doc = LastFetch'.answer.doc
                        /\ platform' = LastFetch'.platform
             ELSE /\ rpc' # "resolve"
                  /\ resolved'.status = "returned" =>
                        resolved'.val.doc = LastFetch'.answer.doc]_vars
C31_Witness ==
    /\ rpc = "resolve" /\ depth = 2
    /\ best_match = E_nested
    /\ requested = S3("linux", "arm", "v7")
    /\ platform = S2("linux", "arm")
    /\ LastFetch.digest = "sha256:index"

Resolving == rpc \in {"call", "resolve", "fetch", "check"}

RECURSIVE GenericRun(_)
GenericRun(seq) ==
    IF seq = <<>> THEN <<>>
    ELSE IF seq[1].cmd \in {"mkdir", "cp grub.cfg", "grub-install"}
         THEN <<seq[1]>> \o GenericRun(Tail(seq))
         ELSE GenericRun(Tail(seq))
\* the text holds the word, in whatever letter case the file spells it
Holds(file, w) == \E x \in file.text : Lower(x) = w
Chosen(file) ==
    IF file.exists /\ Holds(file, "alpine") THEN "install_alpine"
    ELSE IF file.exists /\ (Holds(file, "debian") \/ Holds(file, "ubuntu"))
         THEN "install_debian"
    ELSE "install_generic"
PackageManagers == {"apk update", "apk add", "apt-get update", "apt-get install"}

\* C33: the sequence entered after etc/os-release was read is the Alpine one
\* when the text holds 'alpine' (whatever else it holds), else the Debian one
\* when it holds 'debian' or 'ubuntu', else (or with no file) the generic
\* path; only commands of the sequence entered are ever run in the call; the
\* generic path runs no chrooted command, so no package manager, and once it
\* has returned its boot-menu configuration has been copied into the guest.
C33_OneSequenceByOsRelease ==
    /\ [][(pc = "classify" /\ pc' # "classify") => pc' = Chosen(os_release)]_vars
    /\ [](/\ distro = "unread" => Chrooted(cmds) = <<>> /\ GenericRun(cmds) = <<>>
          /\ distro = "alpine" =>
                /\ IsPrefix(Chrooted(cmds), AlpineCommands) /\ GenericRun(cmds) = <<>>
          /\ distro = "debian" =>
                /\ IsPrefix(Chrooted(cmds), DebianCommands) /\ GenericRun(cmds) = <<>>
          /\ distro \in {"unknown", "missing"} =>
                /\ Chrooted(cmds) = <<>>
                /\ \A i \in DOMAIN cmds : cmds[i].target.base \notin PackageManagers
                /\ IsPrefix([i \in DOMAIN GenericRun(cmds) |-> GenericRun(cmds)[i].cmd],
                            GenericCommands)
                /\ (pc \notin {"install_generic", "classify"} /\ pending = NoError
                        /\ result # "raised")
                      => \E i \in DOMAIN cmds :
                            cmds[i].cmd = "cp grub.cfg" /\ cmds[i].ok)
C33_Witness ==
    /\ pc = "install_alpine" /\ idx = 1 /\ distro = "alpine"
    /\ os_release = [exists |-> TRUE, text |-> {"Alpine", "debian", "Ubuntu"}]
C33_WitnessGeneric ==
    /\ Ended /\ distro = "missing" /\ result = "returned"
    /\ \E i \in DOMAIN cmds : cmds[i].cmd = "cp grub.cfg" /\ cmds[i].ok

(***************************************************************************)
(* Failures that are not propagated                                        *)
(***************************************************************************)
\* the commands whose failure the conversion goes on after
Swallowed == {"chroot", "kpartx -a", "grub-install", "umount", "kpartx -d",
              "losetup -d", "rmtree"}

\* C34: every command that failed and whose failure was not propagated has
\* a line in the log that names it.
C34_SwallowedFailureLogged ==
    \A i \in DOMAIN cmds :
        (cmds[i].cmd \in Swallowed /\ ~cmds[i].ok) => cmds[i].printed

(***************************************************************************)
(* Rejected inputs and the conversion lock                                 *)
(***************************************************************************)
\* the call of thread t was made with a blank URL or a size under the minimum
Rejected(t) ==
    \/ Strip(tinput[t].image_url) = ""
    \/ tinput[t].image_size_mb < MinImageSize
HasReturned(t) == tpc[t] = "idle" /\ tresult[t] # NoResult

\* C35: a call with a blank URL or a size under 512 enters no stage (no
\* parse, no registry request, no download, no disk operation), makes no
\* temporary directory, returns an error status with no path, and the lock
\* is not held by it once it has returned.
C35_RejectedInputNoEffect ==
    \A t \in Threads :
        (Rejected(t) /\ tinput[t] # NoInput) =>
            /\ tstages[t] = <<>>
            /\ tdirs[t] = {}
            /\ tpc[t] \in {"idle", "blocked", "validate", "release"}
            /\ tresult[t].path = "None"
            /\ (Returning(t) \/ HasReturned(t)) =>
                  tresult[t].status \in {"error: no image url", "error: image size",
                                         "unexpected error"}
            /\ HasReturned(t) => conversion_lock # t
C35_Witness ==
    /\ HasReturned(1) /\ conversion_lock = 0
    /\ tinput[1] = [image_url |-> "  ", image_size_mb |-> 4 * MinImageSize]
    /\ tresult[1] = [status |-> "error: no image url", path |-> "None"]
    /\ HasReturned(2)
    /\ tinput[2] = [image_url |-> "alpine:latest", image_size_mb |-> MinImageSize - 1]
    /\ tresult[2] = [status |-> "error: image size", path |-> "None"]

C37_RequestedPlatformEverywhere ==
    \A t \in Threads :
        LET used == tplatforms[t].used
        IN  /\ \A i \in DOMAIN used : used[i].platform = tplatforms[t].requested
            /\ \A i, j \in DOMAIN used :
                  (used[i].stage = "info" /\ used[j].stage = "download"
                      /\ used[j].layers # 0)
                    => used[i].layers = used[j].layers

(***************************************************************************)
(* The last pass of the node-visibility wait                               *)
(***************************************************************************)
\* the wait has raised its timeout error
TimedOut == pc = "finally" /\ result = "raised" /\ error.kind = "partition_timeout"
\* the pass that measured elapsed ran the re-read of the partition table
ActedInLastPass == last_trigger = elapsed

\* C38: the wait does not raise its timeout error when the pass that gave up
\* ran a re-read and the partition node is visible: what the last action made
\* visible is looked at once more before the raise.
C38_CheckAfterLastAction ==
    TimedOut =>
        ~(/\ ActedInLastPass
          /\ \/ Exists(ExpectedPath(loop_device, 1))
             \/ Exists(MapperPath(loop_device, 1)))

(***************************************************************************)
(* Loop devices attached by an attempt that was not registered             *)
(***************************************************************************)
\* C39: when convert_to_bootable_image has ended, every loop device that a
\* losetup attempt of the call attached has been given to losetup -d by
\* cleanup, the one whose path failed the existence check included.
C39_EveryAttachedDetached ==
    Ended => \A d \in attached : Tried("losetup -d", LoopPath(d))

(***************************************************************************)
(* References with a port in the first segment                             *)
(***************************************************************************)
\* host:port, both parts names that are not empty
HasPort(str) ==
    \E k \in 2..(Len(str) - 1) :
        /\ str[k] = ":"
        /\ IsName(SubSeq(str, 1, k - 1))
        /\ IsName(SubSeq(str, k + 1, Len(str)))

\* C40: the tag that parse_image_url returns holds no "/"; and for a reference
\* of two segments host:port/name it returns the registry host:port, the
\* repository name and the tag "latest".
C40_PortIsNotATag ==
    parsed # NotParsed =>
        /\ \A i \in DOMAIN parsed.tag : parsed.tag[i] # "/"
        /\ LET parts == Split(image_url)
           IN  (Len(parts) = 2 /\ HasPort(parts[1]) /\ parts[2] # <<>>
                   /\ IsName(parts[2]))
                 => /\ parsed.registry_url = parts[1]
                    /\ parsed.repository = parts[2]
                    /\ parsed.tag = <<"latest">>

====
